---- MODULE Spec2Model ----
(***************************************************************************)
(* The message-driven orchestration core of the asset-management agents:   *)
(* the push handler shared by every agent (common/adk_base.py) and the     *)
(* process_message of the Coordinator, the Financial Metrics agent, the    *)
(* Numerical Summarizer agent and the Report Generator agent.              *)
(*                                                                         *)
(* One delivery is one HTTP push.  It is executed statement by statement:  *)
(* pc is the position inside handle_pubsub_message / process_message, and  *)
(* every call of an external service (broker publish, warehouse insert or  *)
(* query, market-data provider, language model) appends one event to log   *)
(* together with the outcome the service gave.  The outcome of an external *)
(* call is chosen nondeterministically.                                    *)
(*                                                                         *)
(* Python values: a dict is a record holding exactly the keys present;     *)
(* dict.get(k) of a missing key is Null; a JSON value that is not a dict   *)
(* is the record NonDict.  Strings are TLA+ strings, "" is the empty       *)
(* (falsy) string.  An f-string is the tuple of its parts.                 *)
(***************************************************************************)
EXTENDS Integers, Sequences, FiniteSets, TLC

VARIABLES
    pc,            \* position of the running delivery
    agent,         \* agent whose Flask app received the running delivery
    envelope,      \* shape of the request body of the running delivery
    message_data,  \* decoded payload handed to process_message
    origin,        \* request_id of the request that started the workflow
    log,           \* external calls made by the running delivery, in order
    http,          \* HTTP status returned for the delivery (0: none yet)
    locals,        \* local variables of the running process_message
    exc,           \* text of the exception last raised in the delivery
    outbox,        \* messages accepted by the broker, not yet pushed
    financial_metrics_table,   \* rows of the financial_metrics table
    numerical_insights_table,  \* rows of the numerical_insights table
    report_metadata_table,     \* rows of the report_metadata table
    reports_bucket,            \* objects of the reports bucket: name -> text
    clock,         \* wall clock (ingestion timestamps)
    today,         \* the current date
    deliveries,    \* number of deliveries handled so far
    replay         \* what the first delivery of a redelivered message did

vars == <<pc, agent, envelope, message_data, origin, log, http, locals,
          exc, outbox, financial_metrics_table, numerical_insights_table,
          report_metadata_table, reports_bucket, clock, today, deliveries,
          replay>>

\* what a statement of process_message never changes
delivery == <<agent, envelope, message_data, origin, http, deliveries, replay>>

\* the warehouse and the artifact bucket
tables == <<financial_metrics_table, numerical_insights_table,
            report_metadata_table, reports_bucket>>

----------------------------------------------------------------------------
(* Bounds of the model *)

MaxDeliveries == 2

----------------------------------------------------------------------------
(* Python values *)

Null == "None"

EmptyDict == [k \in {} |-> Null]

NonDict == [nondict |-> "list"]

IsDict(d) == "nondict" \notin DOMAIN d

\* dict.get(key)
Get(d, key) == IF key \in DOMAIN d THEN d[key] ELSE Null

\* truth value of a string-or-None
Truthy(v) == v # Null /\ v # ""

----------------------------------------------------------------------------
(* common/constants.py *)

PUBSUB_TOPIC_FINANCIAL_DATA_REQUESTS == "financial-data-requests-topic"

PUBSUB_TOPIC_FINANCIAL_DATA_AVAILABLE == "financial-data-available-topic"

PUBSUB_TOPIC_NUMERICAL_INSIGHTS_PROCESSED == "numerical-insights-processed-topic"

PUBSUB_TOPIC_NUMERICAL_SUMMARIES_REQUESTS == "numerical-summaries-requests-topic"

PUBSUB_TOPIC_REPORT_GENERATION_REQUESTS == "report-generation-requests-topic"

PUBSUB_TOPIC_DASHBOARD_UPDATES == "dashboard-updates-topic"

BIGQUERY_TABLE_FINANCIAL_METRICS == "financial_metrics"

BIGQUERY_TABLE_NUMERICAL_INSIGHTS == "numerical_insights"

BIGQUERY_TABLE_REPORT_METADATA == "report_metadata"

PUBSUB_TOPIC_REPORT_GENERATION_COMPLETED == "report-generation-completed-topic"

Agents == {"CoordinatorAgent", "FinancialMetricsAgent",
           "NumericalSummarizerAgent", "ReportGeneratorAgent"}

----------------------------------------------------------------------------
(* The event log *)

PublishEvent(topic, data, ok) ==
    [op |-> "publish", topic |-> topic, data |-> data, ok |-> ok]

\* publish_message: serialise, hand to the broker, wait for the result;
\* a broker failure is re-raised to the caller.  okpc is where the caller
\* continues, failpc where the raised exception lands.
publish_message(topic, data, okpc, failpc) ==
    \E ok \in BOOLEAN :
        /\ log' = Append(log, PublishEvent(topic, data, ok))
        /\ outbox' = IF ok /\ topic # PUBSUB_TOPIC_DASHBOARD_UPDATES
                     THEN outbox \cup {[topic |-> topic, data |-> data,
                                        origin |-> origin]}
                     ELSE outbox
        /\ pc' = IF ok THEN okpc ELSE failpc
        /\ exc' = IF ok THEN exc ELSE "PublishError"

\* publish_dashboard_update: publish_message on the status topic; nothing
\* is caught here, so the exception of publish_message reaches the caller.
publish_dashboard_update(update_data, okpc, failpc) ==
    publish_message(PUBSUB_TOPIC_DASHBOARD_UPDATES, update_data, okpc, failpc)

\* a statement that calls no external service: continue at label
Goto(label) == pc' = label /\ UNCHANGED <<log, outbox, exc>>

\* a statement that raises: the exception lands at label
RaiseTo(label, text) == pc' = label /\ exc' = text /\ UNCHANGED <<log, outbox>>

----------------------------------------------------------------------------
(* ADKBaseAgent.handle_pubsub_message *)

EnvelopeKinds ==
    {"not_json",         \* body is not JSON: get_json raises
     "empty_json",       \* body is a falsy JSON value
     "not_a_dict",       \* body is a JSON value that is no object
     "no_message",       \* object without "message"
     "message_null",     \* "message": null
     "no_data",          \* message without "data"
     "data_not_base64",  \* b64decode raises binascii.Error
     "data_not_utf8",    \* bytes.decode raises UnicodeDecodeError
     "data_not_json",    \* json.loads raises JSONDecodeError
     "data_json"}        \* data is base64 of UTF-8 JSON

\* decode_envelope with a JSONDecodeError of the data treated like a message
\* without data
decode_envelope_json_error_as_empty(kind) ==
    CASE kind \in {"not_json", "empty_json", "not_a_dict", "no_message",
                   "message_null", "data_not_base64", "data_not_utf8"} -> "error"
      [] kind \in {"no_data", "data_not_json"} -> "empty"
      [] kind = "data_json" -> "data"

\* What lines 36-62 make of a request body: "error" (a 400 response before
\* process_message is reached), "empty" (message_data = {}) or "data"
\* (message_data = the decoded JSON value).
decode_envelope(kind) ==
    CASE kind = "not_json"        -> "error"   \* except Exception, line 73
      [] kind = "empty_json"      -> "error"   \* line 37
      [] kind = "not_a_dict"      -> "error"   \* line 41
      [] kind = "no_message"      -> "error"   \* line 41
      [] kind = "message_null"    -> "error"   \* TypeError at line 48
      [] kind = "no_data"         -> "empty"   \* line 60
      [] kind = "data_not_base64" -> "error"   \* line 53 raises
      [] kind = "data_not_utf8"   -> "error"   \* line 55 raises
      [] kind = "data_not_json"   -> "error"   \* line 70
      [] kind = "data_json"       -> "data"

\* One push delivered to agent a: lines 35-67.
Receive(a, kind, data) ==
    /\ pc \in {"idle", "done"}
    /\ deliveries < MaxDeliveries
    /\ deliveries' = deliveries + 1
    /\ agent' = a
    /\ envelope' = kind
    /\ log' = <<>>
    /\ locals' = EmptyDict
    /\ exc' = Null
    /\ LET d == decode_envelope(kind) IN
         IF d = "error"
         THEN /\ pc' = "done"
              /\ http' = 400
              /\ message_data' = EmptyDict
         ELSE /\ pc' = "process_message"
              /\ http' = 0
              /\ message_data' = IF d = "empty" THEN EmptyDict ELSE data

\* Lines 67-75: process_message returned (200) or let an exception out,
\* which "except Exception" turns into a 400 response.
handle_pubsub_message_respond ==
    /\ pc \in {"return", "raise"}
    /\ http' = IF pc = "return" THEN 200 ELSE 400
    /\ pc' = "done"
    /\ UNCHANGED <<agent, envelope, message_data, origin, deliveries, log,
                   locals, exc, outbox, tables, clock, today, replay>>

----------------------------------------------------------------------------
(* CoordinatorAgent.process_message *)

\* the per-type validation of lines 49, 61 and 73
coordinator_valid(request_type, payload) ==
    CASE request_type = "financial_metrics" ->
            Truthy(Get(payload, "ticker"))
      [] request_type = "numerical_summary" ->
            ~(~Truthy(Get(payload, "ticker"))
              /\ ~Truthy(Get(payload, "insight_type")))
      [] request_type = "generate_report" ->
            ~(~Truthy(Get(payload, "report_type"))
              \/ ~(Truthy(Get(payload, "ticker"))
                   \/ Truthy(Get(payload, "sector"))))
      [] OTHER -> FALSE

KnownRequestTypes == {"financial_metrics", "numerical_summary", "generate_report"}

\* the topic each branch publishes the payload to (lines 51, 63, 75)
coordinator_topic(request_type) ==
    CASE request_type = "financial_metrics" -> PUBSUB_TOPIC_FINANCIAL_DATA_REQUESTS
      [] request_type = "numerical_summary" -> PUBSUB_TOPIC_NUMERICAL_SUMMARIES_REQUESTS
      [] request_type = "generate_report" -> PUBSUB_TOPIC_REPORT_GENERATION_REQUESTS

\* the agent each branch names in its ROUTED status (lines 56, 68, 80)
coordinator_target(request_type) ==
    CASE request_type = "financial_metrics" -> "FinancialMetricsAgent"
      [] request_type = "numerical_summary" -> "NumericalSummarizerAgent"
      [] request_type = "generate_report" -> "ReportGeneratorAgent"

\* the ROUTED status of lines 53-58, 65-70, 77-82
coordinator_routed_status(request_type, payload, request_id) ==
    [request_id |-> request_id,
     status |-> "ROUTED",
     agent |-> coordinator_target(request_type),
     message |-> <<"Request routed: ", request_type,
                   IF request_type = "generate_report"
                   THEN Get(payload, "report_type")
                   ELSE Get(payload, "ticker")>>]

\* the FAILED statuses of the coordinator (lines 38-42, 87-91, 96-100,
\* 104-108): request_id, status and message, no "agent" key
coordinator_failed_status(request_id, text) ==
    [request_id |-> request_id, status |-> "FAILED", message |-> text]

\* lines 30-45: read the request; a missing request_type is reported
CoordinatorStart ==
    /\ pc = "process_message"
    /\ agent = "CoordinatorAgent"
    /\ IF ~IsDict(message_data)
       THEN /\ RaiseTo("raise", "AttributeError")
            /\ UNCHANGED locals
       ELSE /\ locals' = [request_type |-> Get(message_data, "request_type"),
                          payload |-> IF "payload" \in DOMAIN message_data
                                      THEN message_data.payload
                                      ELSE EmptyDict,
                          request_id |-> Get(message_data, "request_id")]
            /\ Goto(IF Truthy(Get(message_data, "request_type"))
                    THEN "c_try" ELSE "c_missing_type")
    /\ UNCHANGED <<delivery, tables, clock, today>>

\* lines 36-43: FAILED status outside the try block, then return
CoordinatorMissingType ==
    /\ pc = "c_missing_type"
    /\ publish_dashboard_update(
           coordinator_failed_status(locals.request_id,
               <<"Missing request_type in coordinator request.">>),
           "return", "raise")
    /\ UNCHANGED <<delivery, locals, tables, clock, today>>

\* CoordinatorDispatch going on to the ROUTED status although the forward
\* raised
CoordinatorDispatch_routed_without_forward ==
    /\ pc = "c_try"
    /\ LET request_type == locals.request_type
           payload == locals.payload
       IN  IF request_type \notin KnownRequestTypes
           THEN Goto("c_unknown")
           ELSE IF ~IsDict(payload)
           THEN RaiseTo("c_except", "AttributeError")
           ELSE IF ~coordinator_valid(request_type, payload)
           THEN RaiseTo("c_value_error", "ValueError")
           ELSE publish_message(coordinator_topic(request_type), payload,
                                "c_routed", "c_routed")
    /\ UNCHANGED <<delivery, locals, tables, clock, today>>

\* lines 47-51, 60-63, 72-75, 84: validate and forward the payload
CoordinatorDispatch ==
    /\ pc = "c_try"
    /\ LET request_type == locals.request_type
           payload == locals.payload
       IN  IF request_type \notin KnownRequestTypes
           THEN Goto("c_unknown")
           ELSE IF ~IsDict(payload)
           THEN RaiseTo("c_except", "AttributeError")
           ELSE IF ~coordinator_valid(request_type, payload)
           THEN RaiseTo("c_value_error", "ValueError")
           ELSE publish_message(coordinator_topic(request_type), payload,
                                "c_routed", "c_except")
    /\ UNCHANGED <<delivery, locals, tables, clock, today>>

\* lines 52-58, 64-70, 76-82: the ROUTED status, inside the try block
CoordinatorRouted ==
    /\ pc = "c_routed"
    /\ publish_dashboard_update(
           coordinator_routed_status(locals.request_type, locals.payload,
                                     locals.request_id),
           "return", "c_except")
    /\ UNCHANGED <<delivery, locals, tables, clock, today>>

\* lines 84-91: unknown request_type, FAILED status inside the try block
CoordinatorUnknown ==
    /\ pc = "c_unknown"
    /\ publish_dashboard_update(
           coordinator_failed_status(locals.request_id,
               <<"Coordinator: Unknown request_type: ", locals.request_type>>),
           "return", "c_except")
    /\ UNCHANGED <<delivery, locals, tables, clock, today>>

\* lines 93-100: except ValueError; an exception raised here leaves
\* process_message
CoordinatorValueError ==
    /\ pc = "c_value_error"
    /\ publish_dashboard_update(
           coordinator_failed_status(locals.request_id,
               <<"Coordinator: Invalid request payload: ", exc>>),
           "return", "raise")
    /\ UNCHANGED <<delivery, locals, tables, clock, today>>

\* lines 101-108: except Exception
CoordinatorExcept ==
    /\ pc = "c_except"
    /\ publish_dashboard_update(
           coordinator_failed_status(locals.request_id,
               <<"Coordinator: An unexpected error occurred: ", exc>>),
           "return", "raise")
    /\ UNCHANGED <<delivery, locals, tables, clock, today>>

----------------------------------------------------------------------------
(* common/utils.py *)

\* the ticker strings of the model and their characters
TickerStrings == {"", "A", " a"}

Chars(t) ==
    CASE t = ""   -> <<>>
      [] t = "A"  -> <<"A">>
      [] t = " a" -> <<" ", "a">>

FromChars(s) == CHOOSE t \in TickerStrings : Chars(t) = s

RECURSIVE lstrip(_)
lstrip(s) == IF s # <<>> /\ Head(s) = " " THEN lstrip(Tail(s)) ELSE s

RECURSIVE rstrip(_)
rstrip(s) ==
    IF s # <<>> /\ s[Len(s)] = " " THEN rstrip(SubSeq(s, 1, Len(s) - 1)) ELSE s

upper(s) == [i \in 1..Len(s) |-> IF s[i] = "a" THEN "A" ELSE s[i]]

\* ticker.strip().upper()
sanitize_ticker(ticker) == FromChars(upper(rstrip(lstrip(Chars(ticker)))))

\* the dates that occur: ISO strings and the day each one denotes
ValidDates == {"2024-05-10", "2024-05-19", "2024-06-18"}

\* datetime.strptime(date, "%Y-%m-%d").date() as a day number
\* (2024-05-01 is day 1)
DayOf(date) ==
    CASE date = "2024-05-10" -> 10
      [] date = "2024-05-19" -> 19
      [] date = "2024-06-18" -> 49

----------------------------------------------------------------------------
(* tools/bigquery_tool.py *)

InsertOutcomes == {"ok", "errors", "raised"}

InsertEvent(table, rows, outcome) ==
    [op |-> "insert_rows", table |-> table, rows |-> rows, result |-> outcome]

\* BigQueryTool.insert_rows: get_table or the API request may raise; row
\* errors make it return False and leave the table as it was; otherwise
\* the rows are appended and it returns True.
insert_rows_table(table, rows, outcome) ==
    IF outcome = "ok" THEN table \o rows ELSE table

----------------------------------------------------------------------------
(* AlphaVantageTool.get_key_metrics and AlphaVantageProcessor *)

\* what the provider knows for a symbol: prices are decimal strings
ProviderAnswers ==
    {[current_price |-> Null, day_change_percent |-> Null, market_cap |-> Null],
     [current_price |-> "103.0", day_change_percent |-> Null, market_cap |-> "1000"],
     [current_price |-> "103.0", day_change_percent |-> "3.0", market_cap |-> Null],
     [current_price |-> "103.0", day_change_percent |-> "3.0", market_cap |-> "1000"]}

\* get_key_metrics: the record of the symbol, every schema field present
get_key_metrics(symbol, date, now, answer) ==
    [ticker |-> symbol,
     date |-> date,
     ingestion_timestamp |-> now,
     current_price |-> answer.current_price,
     day_change_percent |-> answer.day_change_percent,
     market_cap |-> answer.market_cap]

\* fetch_and_format_financial_metrics: None unless the record has a
\* current price; the ingestion timestamp is taken again before returning
fetch_and_format_financial_metrics(ticker, date, now, answer) ==
    LET formatted_data == get_key_metrics(sanitize_ticker(ticker), date, now, answer)
    IN  IF formatted_data.current_price = Null
        THEN [none |-> TRUE]
        ELSE formatted_data

----------------------------------------------------------------------------
(* FinancialMetricsAgent.process_message *)

metrics_failed_status(request_id, text) ==
    [request_id |-> request_id, status |-> "FAILED",
     agent |-> "FinancialMetricsAgent", message |-> text]

\* MetricsStart with a request dropped when the warehouse already holds a
\* record of the ticker
MetricsStart_duplicate_suppressed ==
    /\ pc = "process_message"
    /\ agent = "FinancialMetricsAgent"
    /\ IF ~IsDict(message_data)
       THEN /\ RaiseTo("raise", "AttributeError")
            /\ UNCHANGED locals
       ELSE /\ locals' = [ticker |-> Get(message_data, "ticker"),
                          request_id |-> Get(message_data, "request_id")]
            /\ Goto(IF ~Truthy(Get(message_data, "ticker"))
                    THEN "m_missing_ticker"
                    ELSE IF \E i \in 1..Len(financial_metrics_table) :
                               financial_metrics_table[i].ticker =
                                   sanitize_ticker(message_data.ticker)
                    THEN "return"
                    ELSE "m_fetch")
    /\ UNCHANGED <<delivery, tables, clock, today>>

\* lines 29-43
MetricsStart ==
    /\ pc = "process_message"
    /\ agent = "FinancialMetricsAgent"
    /\ IF ~IsDict(message_data)
       THEN /\ RaiseTo("raise", "AttributeError")
            /\ UNCHANGED locals
       ELSE /\ locals' = [ticker |-> Get(message_data, "ticker"),
                          request_id |-> Get(message_data, "request_id")]
            /\ Goto(IF Truthy(Get(message_data, "ticker"))
                    THEN "m_fetch" ELSE "m_missing_ticker")
    /\ UNCHANGED <<delivery, tables, clock, today>>

\* lines 32-41: FAILED status outside the try block, then return
MetricsMissingTicker ==
    /\ pc = "m_missing_ticker"
    /\ publish_dashboard_update(
           metrics_failed_status(locals.request_id,
               <<"FinancialMetricsAgent: Missing 'ticker' in request payload.">>),
           "return", "raise")
    /\ UNCHANGED <<delivery, locals, tables, clock, today>>

\* lines 46-48: the provider call; it may raise, or give a record
MetricsFetch ==
    /\ pc = "m_fetch"
    /\ \/ /\ pc' = "m_except"
          /\ exc' = "ProviderError"
          /\ log' = Append(log, [op |-> "get_key_metrics", result |-> [raised |-> TRUE]])
          /\ UNCHANGED <<locals, clock, today>>
       \/ \E date \in ValidDates, answer \in ProviderAnswers :
            LET financial_data ==
                    fetch_and_format_financial_metrics(locals.ticker, date,
                                                       clock, answer)
            IN  /\ DayOf(date) >= DayOf(today)
                /\ today' = date
                /\ log' = Append(log, [op |-> "get_key_metrics",
                                       result |-> financial_data])
                /\ locals' = [financial_data |-> financial_data] @@ locals
                /\ clock' = clock + 1
                /\ pc' = IF "none" \in DOMAIN financial_data
                         THEN "m_no_data" ELSE "m_insert"
                /\ UNCHANGED exc
    /\ UNCHANGED <<delivery, outbox, tables>>

\* MetricsInsert not looking at what insert_rows returned
MetricsInsert_result_ignored ==
    /\ pc = "m_insert"
    /\ \E outcome \in InsertOutcomes :
        /\ log' = Append(log, InsertEvent(BIGQUERY_TABLE_FINANCIAL_METRICS,
                                          <<locals.financial_data>>, outcome))
        /\ financial_metrics_table' =
               insert_rows_table(financial_metrics_table,
                                 <<locals.financial_data>>, outcome)
        /\ pc' = IF outcome = "raised" THEN "m_except" ELSE "m_trigger"
        /\ exc' = IF outcome = "raised" THEN "InsertError" ELSE exc
    /\ UNCHANGED <<delivery, locals, outbox, numerical_insights_table,
                   report_metadata_table, reports_bucket, clock, today>>

\* line 50: insert the record
MetricsInsert ==
    /\ pc = "m_insert"
    /\ \E outcome \in InsertOutcomes :
        /\ log' = Append(log, InsertEvent(BIGQUERY_TABLE_FINANCIAL_METRICS,
                                          <<locals.financial_data>>, outcome))
        /\ financial_metrics_table' =
               insert_rows_table(financial_metrics_table,
                                 <<locals.financial_data>>, outcome)
        /\ pc' = CASE outcome = "ok" -> "m_trigger"
                   [] outcome = "errors" -> "m_store_failed"
                   [] outcome = "raised" -> "m_except"
        /\ exc' = IF outcome = "raised" THEN "InsertError" ELSE exc
    /\ UNCHANGED <<delivery, locals, outbox, numerical_insights_table,
                   report_metadata_table, reports_bucket, clock, today>>

\* MetricsTrigger with a failed trigger publish swallowed
MetricsTrigger_failure_swallowed ==
    /\ pc = "m_trigger"
    /\ publish_message(PUBSUB_TOPIC_FINANCIAL_DATA_AVAILABLE,
           [ticker |-> locals.ticker,
            data_type |-> "financial_metrics",
            date |-> locals.financial_data.date,
            request_id |-> locals.request_id],
           "m_completed", "m_completed")
    /\ UNCHANGED <<delivery, locals, tables, clock, today>>

\* lines 52-60: the data-available trigger
MetricsTrigger ==
    /\ pc = "m_trigger"
    /\ publish_message(PUBSUB_TOPIC_FINANCIAL_DATA_AVAILABLE,
           [ticker |-> locals.ticker,
            data_type |-> "financial_metrics",
            date |-> locals.financial_data.date,
            request_id |-> locals.request_id],
           "m_completed", "m_except")
    /\ UNCHANGED <<delivery, locals, tables, clock, today>>

\* lines 61-70: the COMPLETED status with the snapshot
MetricsCompleted ==
    /\ pc = "m_completed"
    /\ publish_dashboard_update(
           [request_id |-> locals.request_id,
            status |-> "COMPLETED",
            agent |-> "FinancialMetricsAgent",
            message |-> <<"Financial metrics fetched and stored for ", locals.ticker>>,
            data_snapshot |->
                [current_price |-> locals.financial_data.current_price,
                 day_change_percent |-> locals.financial_data.day_change_percent]],
           "return", "m_except")
    /\ UNCHANGED <<delivery, locals, tables, clock, today>>

\* lines 71-79: insert_rows returned False
MetricsStoreFailed ==
    /\ pc = "m_store_failed"
    /\ publish_dashboard_update(
           metrics_failed_status(locals.request_id,
               <<"FinancialMetricsAgent: Failed to store financial data for ",
                 locals.ticker>>),
           "return", "m_except")
    /\ UNCHANGED <<delivery, locals, tables, clock, today>>

\* lines 80-88: the processor returned None
MetricsNoData ==
    /\ pc = "m_no_data"
    /\ publish_dashboard_update(
           metrics_failed_status(locals.request_id,
               <<"FinancialMetricsAgent: No financial data retrieved for ",
                 locals.ticker>>),
           "return", "m_except")
    /\ UNCHANGED <<delivery, locals, tables, clock, today>>

\* lines 90-98: except Exception
MetricsExcept ==
    /\ pc = "m_except"
    /\ publish_dashboard_update(
           metrics_failed_status(locals.request_id,
               <<"FinancialMetricsAgent: An unexpected error occurred while processing ",
                 locals.ticker, exc>>),
           "return", "raise")
    /\ UNCHANGED <<delivery, locals, tables, clock, today>>

----------------------------------------------------------------------------
(* BigQueryTool.get_financial_metrics and GeminiTool.generate_text *)

\* the rows of a day, in table order
RowsOfDay(rows, day) == SelectSeq(rows, LAMBDA r : DayOf(r.date) = day)

\* ORDER BY date ASC over the days first..last
RECURSIVE OrderByDate(_, _, _)
OrderByDate(rows, first, last) ==
    IF first > last THEN <<>>
    ELSE RowsOfDay(rows, first) \o OrderByDate(rows, first + 1, last)

\* get_financial_metrics: SELECT * WHERE ticker = .. AND date BETWEEN
\* start AND end ORDER BY date ASC; every stored row of the range is
\* returned, whatever its ingestion timestamp
get_financial_metrics(table, ticker, start_day, end_day) ==
    OrderByDate(SelectSeq(table, LAMBDA r : r.ticker = ticker),
                start_day, end_day)

\* query_data returns None when the query raises
QueryOutcomes == {"ok", "failed"}

\* the answers of the language model: a text, nothing, or an exception
GeminiOutcomes == {"text", "empty", "raised"}

\* _generate_summary_with_gemini, lines 68-79: the summary that results
generate_summary_with_gemini(outcome) ==
    CASE outcome = "text" -> "Gemini summary"
      [] outcome = "empty" -> "Failed to generate summary via Gemini."
      [] outcome = "raised" -> "Error generating summary"

----------------------------------------------------------------------------
(* NumericalSummarizerAgent.process_message *)

summarizer_status(request_id, status, text) ==
    [request_id |-> request_id, status |-> status,
     agent |-> "NumericalSummarizerAgent", message |-> text]

\* one insight record of lines 141-149 / 157-165
insight_record(ticker, insight_type, date, summary, now) ==
    [ticker |-> ticker,
     insight_type |-> insight_type,
     generation_date |-> date,
     summary_text |-> summary,
     ingestion_timestamp |-> now]

\* SummarizerStart with an incomplete trigger reported as a failure instead
\* of dropped
SummarizerStart_incomplete_trigger_reported ==
    /\ pc = "process_message"
    /\ agent = "NumericalSummarizerAgent"
    /\ IF ~IsDict(message_data)
       THEN /\ RaiseTo("raise", "AttributeError")
            /\ UNCHANGED locals
       ELSE /\ locals' = [ticker |-> Get(message_data, "ticker"),
                          data_date |-> Get(message_data, "date"),
                          request_id |-> Get(message_data, "request_id")]
            /\ Goto(IF ~Truthy(Get(message_data, "ticker"))
                       \/ ~Truthy(Get(message_data, "date"))
                    THEN "s_except" ELSE "s_window")
    /\ UNCHANGED <<delivery, tables, clock, today>>

\* lines 91-99: a trigger without ticker or date is dropped
SummarizerStart ==
    /\ pc = "process_message"
    /\ agent = "NumericalSummarizerAgent"
    /\ IF ~IsDict(message_data)
       THEN /\ RaiseTo("raise", "AttributeError")
            /\ UNCHANGED locals
       ELSE /\ locals' = [ticker |-> Get(message_data, "ticker"),
                          data_date |-> Get(message_data, "date"),
                          request_id |-> Get(message_data, "request_id")]
            /\ Goto(IF ~Truthy(Get(message_data, "ticker"))
                       \/ ~Truthy(Get(message_data, "date"))
                    THEN "return" ELSE "s_window")
    /\ UNCHANGED <<delivery, tables, clock, today>>

\* lines 101-104: strptime, outside the try block, and the 30-day window
SummarizerWindow ==
    /\ pc = "s_window"
    /\ IF locals.data_date \notin ValidDates
       THEN /\ RaiseTo("raise", "ValueError")
            /\ UNCHANGED locals
       ELSE /\ locals' = [end_day |-> DayOf(locals.data_date),
                          start_day |-> DayOf(locals.data_date) - 30] @@ locals
            /\ Goto("s_in_progress")
    /\ UNCHANGED <<delivery, tables, clock, today>>

\* lines 106-111: the IN_PROGRESS status, outside the try block
SummarizerInProgress ==
    /\ pc = "s_in_progress"
    /\ publish_dashboard_update(
           summarizer_status(locals.request_id, "IN_PROGRESS",
               <<"Analyzing financial metrics for ", locals.ticker>>),
           "s_query", "raise")
    /\ UNCHANGED <<delivery, locals, tables, clock, today>>

\* lines 113-121, 132: the metrics query; query_data turns a failed query
\* into None, and "not financial_metrics" holds of None and of no rows
SummarizerQuery ==
    /\ pc = "s_query"
    /\ \E outcome \in QueryOutcomes :
        LET financial_metrics ==
                IF outcome = "ok"
                THEN get_financial_metrics(financial_metrics_table,
                         locals.ticker, locals.start_day, locals.end_day)
                ELSE <<>>
        IN  /\ log' = Append(log, [op |-> "query_data",
                                   table |-> BIGQUERY_TABLE_FINANCIAL_METRICS,
                                   result |-> outcome,
                                   rows |-> financial_metrics])
            /\ locals' = [financial_metrics |-> financial_metrics] @@ locals
            /\ pc' = IF financial_metrics = <<>> THEN "s_skipped" ELSE "s_insight_1"
    /\ UNCHANGED <<delivery, exc, outbox, tables, clock, today>>

\* lines 121-130: SKIPPED, inside the try block
SummarizerSkipped ==
    /\ pc = "s_skipped"
    /\ publish_dashboard_update(
           summarizer_status(locals.request_id, "SKIPPED",
               <<"No data to summarize for ", locals.ticker>>),
           "return", "s_except")
    /\ UNCHANGED <<delivery, locals, tables, clock, today>>

\* SummarizerInsight with a model call that did not give a text aborting the
\* request
SummarizerInsight_model_failure_aborts(n, insight_type) ==
    /\ pc = IF n = 1 THEN "s_insight_1" ELSE "s_insight_2"
    /\ \E outcome \in GeminiOutcomes :
        /\ log' = Append(log, [op |-> "generate_text", result |-> outcome])
        /\ locals' = [numerical_insights_to_insert |->
                         (IF n = 1 THEN <<>>
                          ELSE locals.numerical_insights_to_insert) \o
                         <<insight_record(locals.ticker, insight_type,
                                          locals.data_date,
                                          generate_summary_with_gemini(outcome),
                                          clock)>>] @@ locals
        /\ pc' = IF outcome # "text" THEN "s_except"
                 ELSE IF n = 1 THEN "s_insight_2" ELSE "s_insert"
        /\ exc' = IF outcome # "text" THEN "ModelError" ELSE exc
    /\ clock' = clock + 1
    /\ UNCHANGED <<delivery, outbox, tables, today>>

\* lines 139-149 (insight 1) and 154-165 (insight 2): one model call each;
\* _generate_summary_with_gemini catches what the call raises
SummarizerInsight(n, insight_type) ==
    /\ pc = IF n = 1 THEN "s_insight_1" ELSE "s_insight_2"
    /\ \E outcome \in GeminiOutcomes :
        /\ log' = Append(log, [op |-> "generate_text", result |-> outcome])
        /\ locals' = [numerical_insights_to_insert |->
                         (IF n = 1 THEN <<>>
                          ELSE locals.numerical_insights_to_insert) \o
                         <<insight_record(locals.ticker, insight_type,
                                          locals.data_date,
                                          generate_summary_with_gemini(outcome),
                                          clock)>>] @@ locals
    /\ clock' = clock + 1
    /\ pc' = IF n = 1 THEN "s_insight_2" ELSE "s_insert"
    /\ UNCHANGED <<delivery, exc, outbox, tables, today>>

SummarizerInsight1 == SummarizerInsight(1, "overall_price_trend")

SummarizerInsight2 == SummarizerInsight(2, "volume_volatility_analysis")

\* lines 167-184: the diagnostic averages only print; then the batch
\* insert, whose boolean result is not looked at
SummarizerInsert ==
    /\ pc = "s_insert"
    /\ \E outcome \in InsertOutcomes :
        /\ log' = Append(log, InsertEvent(BIGQUERY_TABLE_NUMERICAL_INSIGHTS,
                                          locals.numerical_insights_to_insert,
                                          outcome))
        /\ numerical_insights_table' =
               insert_rows_table(numerical_insights_table,
                                 locals.numerical_insights_to_insert, outcome)
        /\ pc' = IF outcome = "raised" THEN "s_except" ELSE "s_trigger"
        /\ exc' = IF outcome = "raised" THEN "InsertError" ELSE exc
    /\ UNCHANGED <<delivery, locals, outbox, financial_metrics_table,
                   report_metadata_table, reports_bucket, clock, today>>

\* lines 186-192: the completion trigger
SummarizerTrigger ==
    /\ pc = "s_trigger"
    /\ publish_message(PUBSUB_TOPIC_NUMERICAL_INSIGHTS_PROCESSED,
           [ticker |-> locals.ticker,
            date |-> locals.data_date,
            insights_count |-> Len(locals.numerical_insights_to_insert),
            request_id |-> locals.request_id],
           "s_completed", "s_except")
    /\ UNCHANGED <<delivery, locals, tables, clock, today>>

\* lines 193-199: the COMPLETED status
SummarizerCompleted ==
    /\ pc = "s_completed"
    /\ publish_dashboard_update(
           summarizer_status(locals.request_id, "COMPLETED",
               <<"Numerical insights generated for ", locals.ticker,
                 locals.data_date>>),
           "return", "s_except")
    /\ UNCHANGED <<delivery, locals, tables, clock, today>>

\* lines 201-209: except Exception
SummarizerExcept ==
    /\ pc = "s_except"
    /\ publish_dashboard_update(
           summarizer_status(locals.request_id, "FAILED",
               <<"NumericalSummarizerAgent: Error processing ", locals.ticker,
                 locals.data_date, exc>>),
           "return", "raise")
    /\ UNCHANGED <<delivery, locals, tables, clock, today>>

----------------------------------------------------------------------------
(* report_templates.py and the queries of the Report Generator *)

\* the keys of REPORT_TEMPLATES
REPORT_TEMPLATES == {"Executive Summary", "Market Overview"}

\* get_report_template: REPORT_TEMPLATES.get(report_type), None if absent
get_report_template(report_type) ==
    IF report_type \in REPORT_TEMPLATES THEN report_type ELSE Null

\* str(uuid.uuid4()): a fresh id for every delivery
uuid4(n) ==
    CASE n = 1 -> "uuid-1"
      [] n = 2 -> "uuid-2"
      [] OTHER -> "uuid-3"

\* f"reports/{report_id}.txt"
gcs_object_name(report_id) ==
    CASE report_id = "uuid-1" -> "reports/uuid-1.txt"
      [] report_id = "uuid-2" -> "reports/uuid-2.txt"
      [] OTHER -> "reports/uuid-3.txt"

\* f"gs://{GCS_REPORTS_BUCKET}/{gcs_object_name}"
gcs_uri_of(object_name) ==
    CASE object_name = "reports/uuid-1.txt" -> "gs://bucket/reports/uuid-1.txt"
      [] object_name = "reports/uuid-2.txt" -> "gs://bucket/reports/uuid-2.txt"
      [] OTHER -> "gs://bucket/reports/uuid-3.txt"

\* r comes before q under ORDER BY <date column> DESC, ingestion_timestamp DESC
Before(r, q, date_column) ==
    \/ DayOf(r[date_column]) > DayOf(q[date_column])
    \/ /\ DayOf(r[date_column]) = DayOf(q[date_column])
       /\ r.ingestion_timestamp >= q.ingestion_timestamp

\* ORDER BY .. DESC LIMIT n over the rows
RECURSIVE OrderDescLimit(_, _, _)
OrderDescLimit(rows, date_column, n) ==
    IF rows = <<>> \/ n = 0 THEN <<>>
    ELSE LET first == CHOOSE i \in DOMAIN rows :
                         \A j \in DOMAIN rows : Before(rows[i], rows[j], date_column)
             rest == [k \in 1..(Len(rows) - 1) |->
                         IF k < first THEN rows[k] ELSE rows[k + 1]]
         IN  <<rows[first]>> \o OrderDescLimit(rest, date_column, n - 1)

\* lines 101-106: the latest financial_metrics row of the ticker
latest_financial_metrics(table, company_ticker) ==
    OrderDescLimit(SelectSeq(table, LAMBDA r : r.ticker = company_ticker),
                   "date", 1)

\* lines 124-131: up to five insights of the ticker generated in the days
\* start_day..end_day
recent_numerical_insights(table, company_ticker, start_day, end_day) ==
    OrderDescLimit(
        SelectSeq(table, LAMBDA r : /\ r.ticker = company_ticker
                                    /\ DayOf(r.generation_date) >= start_day
                                    /\ DayOf(r.generation_date) <= end_day),
        "generation_date", 5)

\* lines 111-115: the f-strings with the format specs .2f and ,.0f raise
\* TypeError when the value is None
render_financial_data(latest_data) ==
    IF latest_data.day_change_percent = Null \/ latest_data.market_cap = Null
    THEN "TypeError"
    ELSE "Latest Financial Metrics"

----------------------------------------------------------------------------
(* ReportGeneratorAgent.process_message *)

report_status(request_id, status, text) ==
    [request_id |-> request_id, status |-> status,
     agent |-> "ReportGeneratorAgent", message |-> text]

\* lines 55-85: read the request, fix the report date (strptime is outside
\* the try block), draw the report id and build the IN_PROGRESS row
ReportStart ==
    /\ pc = "process_message"
    /\ agent = "ReportGeneratorAgent"
    /\ IF ~IsDict(message_data)
       THEN /\ RaiseTo("raise", "AttributeError")
            /\ UNCHANGED <<locals, clock>>
       ELSE LET report_date_str ==
                    IF Truthy(Get(message_data, "report_date"))
                    THEN message_data.report_date ELSE today
            IN  IF report_date_str \notin ValidDates
                THEN /\ RaiseTo("raise", "ValueError")
                     /\ UNCHANGED <<locals, clock>>
                ELSE /\ locals' =
                          [report_type |-> Get(message_data, "report_type"),
                           company_ticker |-> Get(message_data, "company_ticker"),
                           request_id |-> Get(message_data, "request_id"),
                           report_date_str |-> report_date_str,
                           report_id |-> uuid4(deliveries),
                           report_metadata |->
                              [report_id |-> uuid4(deliveries),
                               report_type |-> Get(message_data, "report_type"),
                               company_ticker |-> Get(message_data, "company_ticker"),
                               generation_timestamp |-> clock,
                               gcs_uri |-> "",
                               status |-> "IN_PROGRESS",
                               ingestion_timestamp |-> clock]]
                     /\ clock' = clock + 1
                     /\ Goto("r_insert_in_progress")
    /\ UNCHANGED <<delivery, tables, today>>

\* an insert_rows call of the report's metadata row; its boolean result is
\* not looked at, an exception lands at failpc
insert_report_metadata(row, okpc, failpc) ==
    \E outcome \in InsertOutcomes :
        /\ log' = Append(log, InsertEvent(BIGQUERY_TABLE_REPORT_METADATA,
                                          <<row>>, outcome))
        /\ report_metadata_table' =
               insert_rows_table(report_metadata_table, <<row>>, outcome)
        /\ pc' = IF outcome = "raised" THEN failpc ELSE okpc
        /\ exc' = IF outcome = "raised" THEN "InsertError" ELSE exc

\* line 86: the IN_PROGRESS row, outside the try block
ReportInsertInProgress ==
    /\ pc = "r_insert_in_progress"
    /\ insert_report_metadata(locals.report_metadata, "r_in_progress", "raise")
    /\ UNCHANGED <<delivery, locals, outbox, financial_metrics_table,
                   numerical_insights_table, reports_bucket, clock, today>>

\* lines 87-92: the IN_PROGRESS status, outside the try block
ReportInProgressStatus ==
    /\ pc = "r_in_progress"
    /\ publish_dashboard_update(
           report_status(locals.request_id, "IN_PROGRESS",
               <<"Generating report ", locals.report_type, locals.report_id>>),
           "r_financial_query", "raise")
    /\ UNCHANGED <<delivery, locals, tables, clock, today>>

\* ReportFinancialQuery with a missing metrics row treated as an error
ReportFinancialQuery_no_row_raises ==
    /\ pc = "r_financial_query"
    /\ IF ~Truthy(locals.company_ticker)
       THEN /\ locals' =
                  [financial_data_for_llm |->
                      "No specific company financial data requested for this report.",
                   numerical_insights_for_llm |->
                      "No specific company numerical insights requested for this report."]
                  @@ locals
            /\ Goto("r_template")
       ELSE \E outcome \in QueryOutcomes :
              LET financial_data_rows ==
                      IF outcome = "ok"
                      THEN latest_financial_metrics(financial_metrics_table,
                                                    locals.company_ticker)
                      ELSE <<>>
                  text == IF financial_data_rows = <<>>
                          THEN "TypeError"
                          ELSE render_financial_data(financial_data_rows[1])
              IN  /\ log' = Append(log, [op |-> "query_data",
                                         table |-> BIGQUERY_TABLE_FINANCIAL_METRICS,
                                         result |-> outcome,
                                         rows |-> financial_data_rows])
                  /\ locals' = [financial_data_for_llm |-> text] @@ locals
                  /\ pc' = IF text = "TypeError" THEN "r_except"
                           ELSE "r_insights_query"
                  /\ exc' = IF text = "TypeError" THEN "TypeError" ELSE exc
                  /\ UNCHANGED outbox
    /\ UNCHANGED <<delivery, tables, clock, today>>

\* lines 94-117 and 144-146: the latest metrics of the ticker, if one is
\* given; query_data turns a failed query into None
ReportFinancialQuery ==
    /\ pc = "r_financial_query"
    /\ IF ~Truthy(locals.company_ticker)
       THEN /\ locals' =
                  [financial_data_for_llm |->
                      "No specific company financial data requested for this report.",
                   numerical_insights_for_llm |->
                      "No specific company numerical insights requested for this report."]
                  @@ locals
            /\ Goto("r_template")
       ELSE \E outcome \in QueryOutcomes :
              LET financial_data_rows ==
                      IF outcome = "ok"
                      THEN latest_financial_metrics(financial_metrics_table,
                                                    locals.company_ticker)
                      ELSE <<>>
                  text == IF financial_data_rows = <<>>
                          THEN "No recent financial data found"
                          ELSE render_financial_data(financial_data_rows[1])
              IN  /\ log' = Append(log, [op |-> "query_data",
                                         table |-> BIGQUERY_TABLE_FINANCIAL_METRICS,
                                         result |-> outcome,
                                         rows |-> financial_data_rows])
                  /\ locals' = [financial_data_for_llm |-> text] @@ locals
                  /\ pc' = IF text = "TypeError" THEN "r_except"
                           ELSE "r_insights_query"
                  /\ exc' = IF text = "TypeError" THEN "TypeError" ELSE exc
                  /\ UNCHANGED outbox
    /\ UNCHANGED <<delivery, tables, clock, today>>

\* lines 119-142: the insights of the seven days up to the report date
ReportInsightsQuery ==
    /\ pc = "r_insights_query"
    /\ \E outcome \in QueryOutcomes :
        LET end_day == DayOf(locals.report_date_str)
            numerical_insights_rows ==
                IF outcome = "ok"
                THEN recent_numerical_insights(numerical_insights_table,
                         locals.company_ticker, end_day - 7, end_day)
                ELSE <<>>
        IN  /\ log' = Append(log, [op |-> "query_data",
                                   table |-> BIGQUERY_TABLE_NUMERICAL_INSIGHTS,
                                   result |-> outcome,
                                   rows |-> numerical_insights_rows])
            /\ locals' = [numerical_insights_for_llm |->
                             IF numerical_insights_rows = <<>>
                             THEN "No recent numerical insights found"
                             ELSE "Recent Numerical Insights"] @@ locals
    /\ pc' = "r_template"
    /\ UNCHANGED <<delivery, exc, outbox, tables, clock, today>>

\* lines 148-160: the template of the report type, ValueError if none
ReportTemplate ==
    /\ pc = "r_template"
    /\ IF get_report_template(locals.report_type) = Null
       THEN RaiseTo("r_except", "ValueError")
       ELSE Goto("r_generate")
    /\ UNCHANGED <<delivery, locals, tables, clock, today>>

\* lines 162-168: the model call; generate_text answers None when the call
\* fails, and a falsy answer raises
ReportGenerate ==
    /\ pc = "r_generate"
    /\ \E outcome \in GeminiOutcomes :
        /\ log' = Append(log, [op |-> "generate_text", result |-> outcome,
                               financial_data |-> locals.financial_data_for_llm,
                               numerical_insights |-> locals.numerical_insights_for_llm])
        /\ pc' = IF outcome = "text" THEN "r_upload" ELSE "r_except"
        /\ exc' = IF outcome = "text" THEN exc ELSE "GeminiError"
    /\ UNCHANGED <<delivery, locals, outbox, tables, clock, today>>

UploadOutcomes == {"ok", "raised"}

\* lines 170-175: the artifact write
ReportUpload ==
    /\ pc = "r_upload"
    /\ \E outcome \in UploadOutcomes :
        LET name == gcs_object_name(locals.report_id) IN
        /\ log' = Append(log, [op |-> "upload_from_string", name |-> name,
                               result |-> outcome])
        /\ reports_bucket' =
               IF outcome = "ok"
               THEN (name :> "Gemini report") @@ reports_bucket
               ELSE reports_bucket
        /\ locals' = IF outcome = "ok"
                     THEN [gcs_uri |-> gcs_uri_of(name)] @@ locals
                     ELSE locals
        /\ pc' = IF outcome = "ok" THEN "r_insert_completed" ELSE "r_except"
        /\ exc' = IF outcome = "ok" THEN exc ELSE "UploadError"
    /\ UNCHANGED <<delivery, outbox, financial_metrics_table,
                   numerical_insights_table, report_metadata_table, clock,
                   today>>

\* ReportInsertCompleted leaving the artifact location of the row empty
ReportInsertCompleted_without_location ==
    /\ pc = "r_insert_completed"
    /\ LET row == [locals.report_metadata EXCEPT !.status = "COMPLETED"]
       IN  /\ locals' = [locals EXCEPT !.report_metadata = row]
           /\ insert_report_metadata(row, "r_completion", "r_except")
    /\ UNCHANGED <<delivery, outbox, financial_metrics_table,
                   numerical_insights_table, reports_bucket, clock, today>>

\* lines 177-181: report_metadata is changed in place, then inserted again
ReportInsertCompleted ==
    /\ pc = "r_insert_completed"
    /\ LET row == [locals.report_metadata EXCEPT !.gcs_uri = locals.gcs_uri,
                                                 !.status = "COMPLETED"]
       IN  /\ locals' = [locals EXCEPT !.report_metadata = row]
           /\ insert_report_metadata(row, "r_completion", "r_except")
    /\ UNCHANGED <<delivery, outbox, financial_metrics_table,
                   numerical_insights_table, reports_bucket, clock, today>>

\* lines 183-190: the completion trigger
ReportCompletionTrigger ==
    /\ pc = "r_completion"
    /\ publish_message(PUBSUB_TOPIC_REPORT_GENERATION_COMPLETED,
           [report_id |-> locals.report_id,
            report_type |-> locals.report_type,
            company_ticker |-> locals.company_ticker,
            gcs_uri |-> locals.gcs_uri,
            request_id |-> locals.request_id],
           "r_completed", "r_except")
    /\ UNCHANGED <<delivery, locals, tables, clock, today>>

\* lines 191-199: the COMPLETED status
ReportCompletedStatus ==
    /\ pc = "r_completed"
    /\ publish_dashboard_update(
           [report_id |-> locals.report_id, gcs_uri |-> locals.gcs_uri]
           @@ report_status(locals.request_id, "COMPLETED",
                  <<"report generated and available at ", locals.report_type,
                    locals.gcs_uri>>),
           "return", "r_except")
    /\ UNCHANGED <<delivery, locals, tables, clock, today>>

\* lines 201-205: except Exception: the FAILED row, report_metadata as it
\* is by now
ReportExceptInsert ==
    /\ pc = "r_except"
    /\ LET row == [locals.report_metadata EXCEPT !.status = "FAILED"]
       IN  /\ locals' = [error_msg |-> exc, report_metadata |-> row] @@ locals
           /\ insert_report_metadata(row, "r_failed_status", "raise")
    /\ UNCHANGED <<delivery, outbox, financial_metrics_table,
                   numerical_insights_table, reports_bucket, clock, today>>

\* lines 206-211: the FAILED status of the except block
ReportExceptStatus ==
    /\ pc = "r_failed_status"
    /\ publish_dashboard_update(
           report_status(locals.request_id, "FAILED",
               <<"ReportGeneratorAgent: Error generating report ",
                 locals.report_type, locals.report_id, locals.error_msg>>),
           "return", "raise")
    /\ UNCHANGED <<delivery, locals, tables, clock, today>>

----------------------------------------------------------------------------
(* The pushes *)

RequestIds == {"r1"}

\* the payloads of coordinator requests: a dict, or JSON null
Payloads ==
    {EmptyDict,
     [ticker |-> "A"],
     [ticker |-> " a", date |-> "2024-06-18"],
     [insight_type |-> "overall_price_trend"],
     [report_type |-> "Executive Summary"],
     [report_type |-> "Executive Summary", ticker |-> "A"],
     [report_type |-> "Executive Summary", sector |-> "IT"],
     [nondict |-> "null"]}

\* requests pushed to the coordinator
CoordinatorRequests ==
    {[request_type |-> t, payload |-> p, request_id |-> id] :
        t \in KnownRequestTypes \cup {"bogus"}, p \in Payloads, id \in RequestIds}
    \cup {[payload |-> [ticker |-> "A"], request_id |-> id] : id \in RequestIds}
    \cup {[request_type |-> "financial_metrics", request_id |-> id] : id \in RequestIds}
    \cup {[request_type |-> "financial_metrics", payload |-> [ticker |-> "A"]]}

\* requests pushed to the Financial Metrics agent
MetricsRequests ==
    {EmptyDict, [ticker |-> ""], [ticker |-> "A"]}
    \cup {[ticker |-> t, request_id |-> id] : t \in {"A", " a"}, id \in RequestIds}

\* triggers pushed to the Numerical Summarizer agent
SummarizerTriggers ==
    {EmptyDict, [ticker |-> "A"], [date |-> "2024-06-18"],
     [ticker |-> "A", date |-> "2024-06-18"]}
    \cup {[ticker |-> t, date |-> d, request_id |-> id] :
             t \in {"A", " a"}, d \in {"2024-06-18", "18/06/2024"},
             id \in RequestIds}

\* requests pushed to the Report Generator agent
ReportRequests ==
    {EmptyDict,
     [report_type |-> "Market Overview", request_id |-> "r1"],
     [report_type |-> "Executive Summary", company_ticker |-> "A",
      request_id |-> "r1"],
     [report_type |-> "Sector Analysis", company_ticker |-> "A",
      request_id |-> "r1"],
     [report_type |-> "Executive Summary", company_ticker |-> "A",
      report_date |-> "19/06/2024", request_id |-> "r1"]}

Inbound(a) ==
    CASE a = "CoordinatorAgent" -> CoordinatorRequests
      [] a = "FinancialMetricsAgent" -> MetricsRequests
      [] a = "NumericalSummarizerAgent" -> SummarizerTriggers
      [] a = "ReportGeneratorAgent" -> ReportRequests

\* the agent whose push subscription is attached to a topic
Subscriber(topic) ==
    CASE topic = PUBSUB_TOPIC_FINANCIAL_DATA_REQUESTS -> "FinancialMetricsAgent"
      [] topic = PUBSUB_TOPIC_NUMERICAL_SUMMARIES_REQUESTS -> "NumericalSummarizerAgent"
      [] topic = PUBSUB_TOPIC_FINANCIAL_DATA_AVAILABLE -> "NumericalSummarizerAgent"
      [] topic = PUBSUB_TOPIC_REPORT_GENERATION_REQUESTS -> "ReportGeneratorAgent"
      [] OTHER -> "none"

\* a push from outside the pipeline: any body may arrive at any agent
ExternalPush ==
    \E a \in Agents, kind \in EnvelopeKinds :
      \E data \in Inbound(a) \cup {NonDict} :
        /\ Receive(a, kind, data)
        /\ origin' = IF kind = "data_json" THEN Get(data, "request_id") ELSE Null
        /\ UNCHANGED <<outbox, tables, clock, today, replay>>

\* the broker pushes a message it accepted to the topic's subscriber
BrokerPush ==
    \E e \in outbox :
        /\ Subscriber(e.topic) \in Agents
        /\ Receive(Subscriber(e.topic), "data_json", e.data)
        /\ origin' = e.origin
        /\ outbox' = outbox \ {e}
        /\ UNCHANGED <<tables, clock, today, replay>>

----------------------------------------------------------------------------
(* The system *)

Init ==
    /\ pc = "idle"
    /\ agent = "none"
    /\ envelope = "none"
    /\ message_data = EmptyDict
    /\ origin = Null
    /\ log = <<>>
    /\ http = 0
    /\ locals = EmptyDict
    /\ exc = Null
    /\ outbox = {}
    /\ financial_metrics_table = <<>>
    /\ numerical_insights_table = <<>>
    /\ report_metadata_table = <<>>
    /\ reports_bucket = EmptyDict
    /\ clock = 1
    /\ today = "2024-05-10"
    /\ deliveries = 0
    /\ replay = EmptyDict

Next ==
    \/ ExternalPush
    \/ BrokerPush
    \/ handle_pubsub_message_respond
    \/ CoordinatorStart
    \/ CoordinatorMissingType
    \/ CoordinatorDispatch
    \/ CoordinatorRouted
    \/ CoordinatorUnknown
    \/ CoordinatorValueError
    \/ CoordinatorExcept
    \/ MetricsStart
    \/ MetricsMissingTicker
    \/ MetricsFetch
    \/ MetricsInsert
    \/ MetricsTrigger
    \/ MetricsCompleted
    \/ MetricsStoreFailed
    \/ MetricsNoData
    \/ MetricsExcept
    \/ SummarizerStart
    \/ SummarizerWindow
    \/ SummarizerInProgress
    \/ SummarizerQuery
    \/ SummarizerSkipped
    \/ SummarizerInsight1
    \/ SummarizerInsight2
    \/ SummarizerInsert
    \/ SummarizerTrigger
    \/ SummarizerCompleted
    \/ SummarizerExcept
    \/ ReportStart
    \/ ReportInsertInProgress
    \/ ReportInProgressStatus
    \/ ReportFinancialQuery
    \/ ReportInsightsQuery
    \/ ReportTemplate
    \/ ReportGenerate
    \/ ReportUpload
    \/ ReportInsertCompleted
    \/ ReportCompletionTrigger
    \/ ReportCompletedStatus
    \/ ReportExceptInsert
    \/ ReportExceptStatus

Spec == Init /\ [][Next]_vars

----------------------------------------------------------------------------
(* The readers of financial_metrics over what earlier Financial Metrics   *)
(* deliveries stored: one delivery to the Numerical Summarizer or to the  *)
(* Report Generator, started on a table of up to two rows of ticker A.    *)

UsableAnswers == {a \in ProviderAnswers : a.current_price # Null}

\* the tables two deliveries of a request for ticker A can leave
StoredTables ==
    {<<>>}
    \cup {<<get_key_metrics("A", d1, 1, a1)>> :
             d1 \in ValidDates, a1 \in UsableAnswers}
    \cup {<<get_key_metrics("A", d[1], 1, a[1]), get_key_metrics("A", d[2], 2, a[2])>> :
             d \in {e \in ValidDates \X ValidDates : DayOf(e[1]) <= DayOf(e[2])},
             a \in UsableAnswers \X UsableAnswers}

InitStored ==
    /\ pc = "idle"
    /\ agent = "none"
    /\ envelope = "none"
    /\ message_data = EmptyDict
    /\ origin = Null
    /\ log = <<>>
    /\ http = 0
    /\ locals = EmptyDict
    /\ exc = Null
    /\ outbox = {}
    /\ financial_metrics_table \in StoredTables
    /\ numerical_insights_table = <<>>
    /\ report_metadata_table = <<>>
    /\ reports_bucket = EmptyDict
    /\ clock = Len(financial_metrics_table) + 1
    /\ today = IF financial_metrics_table = <<>> THEN "2024-05-10"
               ELSE financial_metrics_table[Len(financial_metrics_table)].date
    /\ deliveries = MaxDeliveries - 1
    /\ replay = EmptyDict

\* a push to one of the two readers
ReaderPush ==
    \E a \in {"NumericalSummarizerAgent", "ReportGeneratorAgent"} :
      \E data \in Inbound(a) :
        /\ Receive(a, "data_json", data)
        /\ origin' = Get(data, "request_id")
        /\ UNCHANGED <<outbox, tables, clock, today, replay>>

NextStored ==
    \/ ReaderPush
    \/ handle_pubsub_message_respond
    \/ SummarizerStart
    \/ SummarizerWindow
    \/ SummarizerInProgress
    \/ SummarizerQuery
    \/ SummarizerSkipped
    \/ SummarizerInsight1
    \/ SummarizerInsight2
    \/ SummarizerInsert
    \/ SummarizerTrigger
    \/ SummarizerCompleted
    \/ SummarizerExcept
    \/ ReportStart
    \/ ReportInsertInProgress
    \/ ReportInProgressStatus
    \/ ReportFinancialQuery
    \/ ReportInsightsQuery
    \/ ReportTemplate
    \/ ReportGenerate
    \/ ReportUpload
    \/ ReportInsertCompleted
    \/ ReportCompletionTrigger
    \/ ReportCompletedStatus
    \/ ReportExceptInsert
    \/ ReportExceptStatus

SpecStored == InitStored /\ [][NextStored]_vars

----------------------------------------------------------------------------
(* A second system, for duplicate deliveries: one message is pushed to the *)
(* Financial Metrics agent, the Numerical Summarizer or the Report         *)
(* Generator and, once answered, pushed again; replay keeps the calls and  *)
(* the answer of its first delivery.                                       *)

\* the tables one delivery of a request for ticker A can leave
ReplayTables == {t \in StoredTables : Len(t) <= 1}

InitReplay ==
    /\ pc = "idle"
    /\ agent = "none"
    /\ envelope = "none"
    /\ message_data = EmptyDict
    /\ origin = Null
    /\ log = <<>>
    /\ http = 0
    /\ locals = EmptyDict
    /\ exc = Null
    /\ outbox = {}
    /\ financial_metrics_table \in ReplayTables
    /\ numerical_insights_table = <<>>
    /\ report_metadata_table = <<>>
    /\ reports_bucket = EmptyDict
    /\ clock = Len(financial_metrics_table) + 1
    /\ today = IF financial_metrics_table = <<>> THEN "2024-05-10"
               ELSE financial_metrics_table[Len(financial_metrics_table)].date
    /\ deliveries = 0
    /\ replay = EmptyDict

\* the first delivery of a message
FirstPush ==
    \E a \in {"FinancialMetricsAgent", "NumericalSummarizerAgent",
              "ReportGeneratorAgent"} :
      \E data \in Inbound(a) :
        /\ pc = "idle"
        /\ Receive(a, "data_json", data)
        /\ origin' = Get(data, "request_id")
        /\ UNCHANGED <<outbox, tables, clock, today, replay>>

\* the broker delivers the answered message once more: the handler keeps
\* nothing of the first delivery and starts again
Redeliver ==
    /\ pc = "done"
    /\ replay = EmptyDict
    /\ replay' = [log |-> log, http |-> http]
    /\ Receive(agent, envelope, message_data)
    /\ origin' = origin
    /\ UNCHANGED <<outbox, tables, clock, today>>

NextReplay ==
    \/ FirstPush
    \/ Redeliver
    \/ handle_pubsub_message_respond
    \/ MetricsStart
    \/ MetricsMissingTicker
    \/ MetricsFetch
    \/ MetricsInsert
    \/ MetricsTrigger
    \/ MetricsCompleted
    \/ MetricsStoreFailed
    \/ MetricsNoData
    \/ MetricsExcept
    \/ SummarizerStart
    \/ SummarizerWindow
    \/ SummarizerInProgress
    \/ SummarizerQuery
    \/ SummarizerSkipped
    \/ SummarizerInsight1
    \/ SummarizerInsight2
    \/ SummarizerInsert
    \/ SummarizerTrigger
    \/ SummarizerCompleted
    \/ SummarizerExcept
    \/ ReportStart
    \/ ReportInsertInProgress
    \/ ReportInProgressStatus
    \/ ReportFinancialQuery
    \/ ReportInsightsQuery
    \/ ReportTemplate
    \/ ReportGenerate
    \/ ReportUpload
    \/ ReportInsertCompleted
    \/ ReportCompletionTrigger
    \/ ReportCompletedStatus
    \/ ReportExceptInsert
    \/ ReportExceptStatus

SpecReplay == InitReplay /\ [][NextReplay]_vars

----------------------------------------------------------------------------
(* The wire format of a payload: json.dumps and UTF-8 in publish_message   *)
(* (lines 88-89), base64 in the push envelope, and base64, UTF-8 and       *)
(* json.loads in handle_pubsub_message (lines 45-56).                      *)
(*                                                                         *)
(* Here a Python value is a record: t is its type, v the repr of a scalar, *)
(* keys the keys of a dict in insertion order and items the elements of a  *)
(* list or tuple or the values of a dict.                                  *)

PyValue(t, v, keys, items) == [t |-> t, v |-> v, keys |-> keys, items |-> items]

PyNone == PyValue("NoneType", "None", <<>>, <<>>)

PyBool(v) == PyValue("bool", v, <<>>, <<>>)

PyInt(v) == PyValue("int", v, <<>>, <<>>)

PyFloat(v) == PyValue("float", v, <<>>, <<>>)

PyStr(v) == PyValue("str", v, <<>>, <<>>)

PyBytes(v) == PyValue("bytes", v, <<>>, <<>>)

PyList(items) == PyValue("list", "", <<>>, items)

PyTuple(items) == PyValue("tuple", "", <<>>, items)

PyDict(keys, items) == PyValue("dict", "", keys, items)

\* a JSON text, by its grammar: j is the production, v the literal of a
\* number or the characters of a string, names and items the members of an
\* object or the elements of an array
JsonText(j, v, names, items) == [j |-> j, v |-> v, names |-> names, items |-> items]

\* json.encoder: what json.dumps raises no TypeError for
RECURSIVE Serializable(_)
Serializable(x) ==
    CASE x.t \in {"NoneType", "bool", "int", "float", "str"} -> TRUE
      [] x.t \in {"list", "tuple"} ->
            \A i \in 1..Len(x.items) : Serializable(x.items[i])
      [] x.t = "dict" ->
            /\ \A i \in 1..Len(x.keys) :
                  x.keys[i].t \in {"NoneType", "bool", "int", "float", "str"}
            /\ \A i \in 1..Len(x.items) : Serializable(x.items[i])
      [] OTHER -> FALSE

\* json.encoder floatstr with a float written without its decimals
floatstr_without_decimals(v) ==
    CASE v = "nan" -> "NaN"
      [] v = "inf" -> "Infinity"
      [] v = "1.5" -> "2"
      [] OTHER -> v

\* json.encoder floatstr: float.__repr__, NaN and Infinity for the values
\* JSON has no literal for (allow_nan is True)
floatstr(v) ==
    CASE v = "nan" -> "NaN"
      [] v = "inf" -> "Infinity"
      [] OTHER -> v

\* json.encoder: a dict key is written as a string
json_key(k) ==
    CASE k.t = "str" -> k.v
      [] k.t = "float" -> floatstr(k.v)
      [] k.t = "bool" -> IF k.v = "True" THEN "true" ELSE "false"
      [] k.t = "NoneType" -> "null"
      [] k.t = "int" -> k.v

\* json.dumps(message_data), line 88
RECURSIVE json_dumps(_)
json_dumps(x) ==
    CASE x.t = "NoneType" -> JsonText("null", "null", <<>>, <<>>)
      [] x.t = "bool" ->
            JsonText(IF x.v = "True" THEN "true" ELSE "false", "", <<>>, <<>>)
      [] x.t = "int" -> JsonText("number", x.v, <<>>, <<>>)
      [] x.t = "float" -> JsonText("number", floatstr(x.v), <<>>, <<>>)
      [] x.t = "str" -> JsonText("string", x.v, <<>>, <<>>)
      [] x.t \in {"list", "tuple"} ->
            JsonText("array", "", <<>>,
                     [i \in 1..Len(x.items) |-> json_dumps(x.items[i])])
      [] x.t = "dict" ->
            JsonText("object", "",
                     [i \in 1..Len(x.keys) |-> json_key(x.keys[i])],
                     [i \in 1..Len(x.items) |-> json_dumps(x.items[i])])

\* the number literals without fraction and exponent
IntegerLiterals == {"0", "1", "2"}

\* json.decoder: a number literal is an int unless it has a fraction or an
\* exponent; NaN and Infinity are read as floats
json_loads_number(v) ==
    CASE v = "NaN" -> PyFloat("nan")
      [] v = "Infinity" -> PyFloat("inf")
      [] v \in IntegerLiterals -> PyInt(v)
      [] OTHER -> PyFloat(v)

\* the positions of the members of an object that a dict keeps: the first
\* of every name, in order
KeptMembers(names) ==
    LET first == {i \in 1..Len(names) : \A j \in 1..(i - 1) : names[j] # names[i]}
    IN  [k \in 1..Cardinality(first) |->
            CHOOSE i \in first : Cardinality({j \in first : j < i}) = k - 1]

\* the member that gives a name its value: the last of that name
LastMember(names, name) ==
    CHOOSE i \in 1..Len(names) :
        /\ names[i] = name
        /\ \A j \in (i + 1)..Len(names) : names[j] # name

\* json.loads(message_data_str), line 56
RECURSIVE json_loads(_)
json_loads(text) ==
    CASE text.j = "null" -> PyNone
      [] text.j = "true" -> PyBool("True")
      [] text.j = "false" -> PyBool("False")
      [] text.j = "number" -> json_loads_number(text.v)
      [] text.j = "string" -> PyStr(text.v)
      [] text.j = "array" ->
            PyList([i \in 1..Len(text.items) |-> json_loads(text.items[i])])
      [] text.j = "object" ->
            LET kept == KeptMembers(text.names)
            IN  PyDict([k \in 1..Len(kept) |-> PyStr(text.names[kept[k]])],
                       [k \in 1..Len(kept) |->
                           json_loads(text.items[
                               LastMember(text.names, text.names[kept[k]])])])

\* str.encode("utf-8"), line 89, and bytes.decode("utf-8"), line 55: the
\* text json.dumps writes is ASCII (ensure_ascii), one byte per character
encode_utf8(text) == [utf8 |-> text]

decode_utf8(bytes) == bytes.utf8

\* the base64 text of the bytes, as the push envelope carries them, and
\* base64.b64decode, line 53
b64encode(bytes) == [base64 |-> bytes]

b64decode(data) == data.base64

\* the push envelope of a published message: {"message": {"data": ...}}
push_envelope(message_bytes) == [message |-> [data |-> b64encode(message_bytes)]]

\* lines 45-60: the payload handed to process_message
decode_message_data(body) ==
    IF "data" \in DOMAIN body.message
    THEN json_loads(decode_utf8(b64decode(body.message.data)))
    ELSE PyDict(<<>>, <<>>)

\* the payloads handed to publish_message
PyScalars ==
    {PyNone, PyBool("True"), PyInt("1"), PyFloat("1.5"), PyFloat("nan"),
     PyFloat("inf"), PyStr("a"), PyStr("1"), PyStr("")}

PyKeys == {PyStr("a"), PyStr("1"), PyInt("1"), PyFloat("1.5"), PyNone}

PyElements ==
    PyScalars
    \cup {PyList(<<>>), PyList(<<PyInt("1"), PyStr("a")>>),
          PyTuple(<<PyInt("1")>>),
          PyDict(<<PyStr("a")>>, <<PyNone>>),
          PyDict(<<PyInt("1")>>, <<PyStr("a")>>),
          PyBytes("a")}

PyPayloads ==
    {PyDict(<<>>, <<>>), PyNone, PyStr("a"), PyList(<<PyStr("a")>>),
     PyTuple(<<PyStr("a")>>),
     PyDict(<<PyTuple(<<>>)>>, <<PyStr("a")>>)}
    \cup {PyDict(<<k>>, <<e>>) : k \in PyKeys, e \in PyElements}
    \cup {PyDict(<<k[1], k[2]>>, <<e[1], e[2]>>) :
             k \in {p \in PyKeys \X PyKeys : p[1] # p[2]},
             e \in {PyNone, PyStr("a")} \X {PyInt("1"), PyList(<<PyNone>>)}}

\* a payload is about to be published
InitCodec ==
    /\ pc = "publish_message"
    /\ agent = "none"
    /\ envelope = "none"
    /\ message_data = EmptyDict
    /\ origin = Null
    /\ log = <<>>
    /\ http = 0
    /\ locals \in {[message_data |-> x] : x \in PyPayloads}
    /\ exc = Null
    /\ outbox = {}
    /\ financial_metrics_table = <<>>
    /\ numerical_insights_table = <<>>
    /\ report_metadata_table = <<>>
    /\ reports_bucket = EmptyDict
    /\ clock = 1
    /\ today = "2024-05-10"
    /\ deliveries = 0
    /\ replay = EmptyDict

\* publish_message, lines 88-99: json.dumps raises TypeError for a value it
\* cannot write; the bytes go to the broker, whose failure is re-raised
PublishPayload ==
    /\ pc = "publish_message"
    /\ IF ~Serializable(locals.message_data)
       THEN /\ RaiseTo("raise", "TypeError")
            /\ UNCHANGED locals
       ELSE LET message_json == json_dumps(locals.message_data)
                message_bytes == encode_utf8(message_json)
            IN  /\ locals' = [message_json |-> message_json,
                              message_bytes |-> message_bytes] @@ locals
                /\ \E ok \in BOOLEAN :
                     /\ log' = Append(log,
                            PublishEvent(PUBSUB_TOPIC_FINANCIAL_DATA_REQUESTS,
                                         locals.message_data, ok))
                     /\ outbox' = IF ok
                                  THEN {[topic |-> PUBSUB_TOPIC_FINANCIAL_DATA_REQUESTS,
                                         data |-> message_bytes,
                                         origin |-> origin]}
                                  ELSE outbox
                     /\ pc' = IF ok THEN "published" ELSE "raise"
                     /\ exc' = IF ok THEN exc ELSE "PublishError"
    /\ UNCHANGED <<delivery, tables, clock, today>>

\* the broker pushes the bytes it accepted, base64 in the envelope
PushPayload ==
    \E e \in outbox :
        /\ pc = "published"
        /\ envelope' = push_envelope(e.data)
        /\ outbox' = outbox \ {e}
        /\ pc' = "handle_pubsub_message"
        /\ UNCHANGED <<agent, message_data, origin, http, deliveries, log,
                       locals, exc, tables, clock, today, replay>>

\* handle_pubsub_message, lines 36-62: the payload is decoded and handed to
\* process_message
DecodePayload ==
    /\ pc = "handle_pubsub_message"
    /\ message_data' = decode_message_data(envelope)
    /\ pc' = "process_message"
    /\ deliveries' = deliveries + 1
    /\ UNCHANGED <<agent, envelope, origin, http, log, locals, exc, outbox,
                   tables, clock, today, replay>>

NextCodec ==
    \/ PublishPayload
    \/ PushPayload
    \/ DecodePayload

SpecCodec == InitCodec /\ [][NextCodec]_vars

----------------------------------------------------------------------------
(* Reading the log of the running delivery.  "Publishes" counts the calls  *)
(* of publish_message the handler made; whether the broker accepted a call *)
(* is its ok field.                                                        *)

Events == 1..Len(log)

IsPublish(i) == log[i].op = "publish"

\* a status update of the given status
IsStatus(i, status) ==
    /\ IsPublish(i)
    /\ log[i].topic = PUBSUB_TOPIC_DASHBOARD_UPDATES
    /\ log[i].data.status = status

\* a message published to a topic other than the status topic
IsForward(i) == IsPublish(i) /\ log[i].topic # PUBSUB_TOPIC_DASHBOARD_UPDATES

IsPublishTo(i, topic) == IsPublish(i) /\ log[i].topic = topic

IsInsert(i) == log[i].op = "insert_rows"

StatusCalls(status) == {i \in Events : IsStatus(i, status)}

\* the delivery has been answered
Done == pc = "done"

\* the body was decoded and process_message was called
Dispatched == pc # "idle" /\ decode_envelope(envelope) # "error"

----------------------------------------------------------------------------
(* C1 *)

\* C1: every push whose envelope decodes (to a JSON object) is answered
\* with HTTP 200, whatever happens inside process_message.
C1_DecodedPushAnswered200 ==
    (Done /\ Dispatched /\ IsDict(message_data)) => http = 200

----------------------------------------------------------------------------
(* C2 *)

\* C2: a failed status publish is swallowed: it raises nothing out of
\* process_message, so the delivery is neither on its way out with an
\* exception nor answered with an error.
C2_StatusFailureSwallowed ==
    (\E i \in Events :
        /\ IsPublishTo(i, PUBSUB_TOPIC_DASHBOARD_UPDATES)
        /\ ~log[i].ok)
    => /\ pc # "raise"
       /\ Done => http = 200

----------------------------------------------------------------------------
(* C3 *)

\* the bodies C3 names: not JSON, no "message" field, or a "data" field
\* that is not base64 of UTF-8 JSON
MalformedBodies ==
    {"not_json", "no_message", "data_not_base64", "data_not_utf8",
     "data_not_json"}

\* C3: a malformed body is answered with HTTP 400 and process_message is
\* never called for it: no position inside a handler is reached and no
\* external call (publish, insert, query) is made.
C3_MalformedBodyRejected ==
    (pc # "idle" /\ envelope \in MalformedBodies)
    => /\ pc = "done"
       /\ http = 400
       /\ log = <<>>
       /\ locals = EmptyDict

\* a malformed body has been answered
C3_Witness ==
    /\ Done
    /\ envelope = "data_not_json"
    /\ http = 400
    /\ deliveries = 2

----------------------------------------------------------------------------
(* C4, C5: the coordinator's routing table as the claims state it *)

RequestType == Get(message_data, "request_type")

RequestPayload ==
    IF "payload" \in DOMAIN message_data THEN message_data.payload ELSE EmptyDict

\* the request passes the validation of its request_type
ValidRequest ==
    \/ /\ RequestType = "financial_metrics"
       /\ Truthy(Get(RequestPayload, "ticker"))
    \/ /\ RequestType = "numerical_summary"
       /\ Truthy(Get(RequestPayload, "ticker"))
          \/ Truthy(Get(RequestPayload, "insight_type"))
    \/ /\ RequestType = "generate_report"
       /\ Truthy(Get(RequestPayload, "report_type"))
       /\ Truthy(Get(RequestPayload, "ticker"))
          \/ Truthy(Get(RequestPayload, "sector"))

DedicatedTopic ==
    CASE RequestType = "financial_metrics" -> "financial-data-requests-topic"
      [] RequestType = "numerical_summary" -> "numerical-summaries-requests-topic"
      [] RequestType = "generate_report" -> "report-generation-requests-topic"

TargetAgent ==
    CASE RequestType = "financial_metrics" -> "FinancialMetricsAgent"
      [] RequestType = "numerical_summary" -> "NumericalSummarizerAgent"
      [] RequestType = "generate_report" -> "ReportGeneratorAgent"

CoordinatorDelivery ==
    agent = "CoordinatorAgent" /\ Dispatched /\ IsDict(message_data)

\* C4: a coordinator request without request_type, with an unknown
\* request_type or failing its validation gets exactly one FAILED status
\* and no forward.
C4_InvalidRequestOneFailedNoForward ==
    (CoordinatorDelivery /\ Done /\ ~ValidRequest)
    => /\ Cardinality(StatusCalls("FAILED")) = 1
       /\ \A i \in Events : ~IsForward(i)

\* C5: a valid coordinator request is published exactly once, to the topic
\* of its request_type and unchanged; once that publish has succeeded
\* exactly one ROUTED status naming the target agent follows it; a ROUTED
\* status never comes before or without a successful forward.
C5_ValidRequestForwardedThenRouted ==
    /\ (CoordinatorDelivery /\ ValidRequest) =>
          /\ \A i \in Events : IsForward(i) =>
                /\ log[i].topic = DedicatedTopic
                /\ log[i].data = RequestPayload
                /\ \A j \in Events : IsForward(j) => j = i
          /\ \A j \in Events : IsStatus(j, "ROUTED") =>
                /\ log[j].data.agent = TargetAgent
                /\ \A k \in Events : IsStatus(k, "ROUTED") => k = j
          /\ Done =>
                /\ \E i \in Events : IsForward(i)
                /\ (\E i \in Events : IsForward(i) /\ log[i].ok)
                      => \E j \in Events : IsStatus(j, "ROUTED")
    /\ agent = "CoordinatorAgent" =>
          \A j \in Events : IsStatus(j, "ROUTED") =>
              \E i \in 1..(j - 1) : IsForward(i) /\ log[i].ok

\* a valid request was forwarded and its ROUTED status published
C5_Witness ==
    /\ CoordinatorDelivery /\ ValidRequest /\ Done
    /\ RequestType = "numerical_summary"
    /\ Len(log) = 2
    /\ IsForward(1) /\ log[1].ok
    /\ IsStatus(2, "ROUTED") /\ log[2].ok

----------------------------------------------------------------------------
(* C6, C7 *)

\* C6: every message published for a request that carries a request_id
\* carries that request_id.
C6_RequestIdThreaded ==
    origin # Null =>
        \A i \in Events : IsPublish(i) => Get(log[i].data, "request_id") = origin

\* C7: what the coordinator forwards holds the fields its receiver reads:
\* ticker and date for the Numerical Summarizer, report_type and
\* company_ticker for the Report Generator.
C7_ForwardHasReceiverFields ==
    agent = "CoordinatorAgent" =>
        \A i \in Events :
            /\ IsPublishTo(i, PUBSUB_TOPIC_NUMERICAL_SUMMARIES_REQUESTS) =>
                  /\ Truthy(Get(log[i].data, "ticker"))
                  /\ Truthy(Get(log[i].data, "date"))
            /\ IsPublishTo(i, PUBSUB_TOPIC_REPORT_GENERATION_REQUESTS) =>
                  /\ Truthy(Get(log[i].data, "report_type"))
                  /\ Truthy(Get(log[i].data, "company_ticker"))

----------------------------------------------------------------------------
(* C8, C9: the Financial Metrics agent *)

MetricsDelivery ==
    agent = "FinancialMetricsAgent" /\ Dispatched /\ IsDict(message_data)

IsFetch(i) == log[i].op = "get_key_metrics"

\* the provider call raised
ProviderFailed == \E i \in Events : IsFetch(i) /\ "raised" \in DOMAIN log[i].result

\* the provider's record had no current price
NullCurrentPrice == \E i \in Events : IsFetch(i) /\ "none" \in DOMAIN log[i].result

\* the insert returned False or raised
InsertFailed == \E i \in Events : IsInsert(i) /\ log[i].result # "ok"

IsTrigger(i) == IsPublishTo(i, PUBSUB_TOPIC_FINANCIAL_DATA_AVAILABLE)

\* the FAILED status i names the requested ticker
NamesTicker(i) ==
    \E k \in DOMAIN log[i].data.message :
        log[i].data.message[k] = message_data.ticker

\* C8: a data-available trigger is published only after a record with a
\* current price was inserted successfully; when the provider fails, the
\* record has no current price or the insert fails, the delivery ends with
\* a FAILED status naming the ticker and without a trigger, and in the
\* first two cases nothing is inserted.
C8_TriggerOnlyAfterUsableRecordPersisted ==
    MetricsDelivery =>
        /\ \A i \in Events : IsTrigger(i) =>
              \E j \in 1..(i - 1) :
                  /\ IsInsert(j)
                  /\ log[j].result = "ok"
                  /\ log[j].table = BIGQUERY_TABLE_FINANCIAL_METRICS
                  /\ log[j].rows[1].current_price # Null
        /\ (ProviderFailed \/ NullCurrentPrice \/ InsertFailed) =>
              /\ \A i \in Events : ~IsTrigger(i)
              /\ Done => /\ IsStatus(Len(log), "FAILED")
                         /\ NamesTicker(Len(log))
        /\ (ProviderFailed \/ NullCurrentPrice) =>
              \A i \in Events : ~IsInsert(i)

\* the insert reported row errors and the delivery ended with FAILED
C8_Witness ==
    /\ MetricsDelivery /\ Done
    /\ Len(log) = 3
    /\ IsInsert(2) /\ log[2].result = "errors"
    /\ log[2].rows[1].current_price = "103.0"
    /\ IsStatus(3, "FAILED") /\ log[3].ok
    /\ financial_metrics_table = <<>>

\* C9: on a successful run the record is inserted once, then the trigger
\* {ticker, data_type, date, request_id} is published once, then one
\* COMPLETED status with the price/day-change snapshot; a COMPLETED status
\* is never published without the trigger having been published before.
C9_InsertThenTriggerThenCompleted ==
    MetricsDelivery =>
        \A c \in Events : IsStatus(c, "COMPLETED") =>
            /\ c = 4
            /\ IsFetch(1)
            /\ IsInsert(2) /\ log[2].result = "ok"
            /\ IsTrigger(3) /\ log[3].ok
            /\ DOMAIN log[3].data = {"ticker", "data_type", "date", "request_id"}
            /\ log[3].data.ticker = message_data.ticker
            /\ log[3].data.data_type = "financial_metrics"
            /\ log[3].data.date = log[2].rows[1].date
            /\ log[3].data.request_id = Get(message_data, "request_id")
            /\ log[4].data.data_snapshot =
                   [current_price |-> log[2].rows[1].current_price,
                    day_change_percent |-> log[2].rows[1].day_change_percent]
            /\ \A i \in Events : i > 4 => ~(IsInsert(i) \/ IsTrigger(i)
                                            \/ IsStatus(i, "COMPLETED"))

\* a run that went through: four events, COMPLETED accepted, HTTP 200
C9_Witness ==
    /\ MetricsDelivery /\ Done /\ http = 200
    /\ Len(log) = 4
    /\ IsInsert(2) /\ IsTrigger(3)
    /\ IsStatus(4, "COMPLETED") /\ log[4].ok
    /\ Len(financial_metrics_table) >= 1

----------------------------------------------------------------------------
(* C10: the Numerical Summarizer with nothing to summarize *)

\* a trigger the summarizer can work on
ValidTrigger ==
    /\ agent = "NumericalSummarizerAgent" /\ Dispatched /\ IsDict(message_data)
    /\ Truthy(Get(message_data, "ticker"))
    /\ Get(message_data, "date") \in ValidDates

\* no stored row of the ticker in the 30 days up to the trigger's date
NoRowsInWindow ==
    get_financial_metrics(financial_metrics_table, message_data.ticker,
                          DayOf(message_data.date) - 30,
                          DayOf(message_data.date)) = <<>>

\* C10: a trigger whose ticker has no stored metric row in the 30-day
\* window gets exactly one SKIPPED status, no insight row, no call of the
\* language model and no completion trigger.
C10_NoRowsExactlyOneSkipped ==
    (ValidTrigger /\ NoRowsInWindow /\ Done) =>
        /\ Cardinality(StatusCalls("SKIPPED")) = 1
        /\ \A i \in Events :
              /\ ~IsInsert(i)
              /\ log[i].op # "generate_text"
              /\ ~IsPublishTo(i, PUBSUB_TOPIC_NUMERICAL_INSIGHTS_PROCESSED)

----------------------------------------------------------------------------
(* C11, C12, C13: the Numerical Summarizer with rows to summarize *)

SummarizerDelivery ==
    agent = "NumericalSummarizerAgent" /\ Dispatched /\ IsDict(message_data)

IsInsightInsert(i) ==
    IsInsert(i) /\ log[i].table = BIGQUERY_TABLE_NUMERICAL_INSIGHTS

IsCompletionTrigger(i) ==
    IsPublishTo(i, PUBSUB_TOPIC_NUMERICAL_INSIGHTS_PROCESSED)

\* the batch of insert i: the two insights, in the order of their types
BothInsights(i) ==
    /\ Len(log[i].rows) = 2
    /\ log[i].rows[1].insight_type = "overall_price_trend"
    /\ log[i].rows[2].insight_type = "volume_volatility_analysis"

\* C11: a trigger whose window holds a metric row makes the summarizer
\* persist exactly two insight records with one batch insert, of types
\* overall_price_trend and volume_volatility_analysis, and publish one
\* COMPLETED status whose insights_count is 2.
C11_TwoInsightsOneBatchThenCompleted ==
    (ValidTrigger /\ ~NoRowsInWindow /\ Done) =>
        /\ \E i \in Events :
              /\ IsInsightInsert(i) /\ log[i].result = "ok" /\ BothInsights(i)
              /\ \A j \in Events : IsInsightInsert(j) => j = i
              /\ \E c \in Events :
                    /\ c > i
                    /\ IsStatus(c, "COMPLETED")
                    /\ "insights_count" \in DOMAIN log[c].data
                    /\ log[c].data.insights_count = 2
        /\ Cardinality(StatusCalls("COMPLETED")) = 1

\* C12: the completion trigger and the COMPLETED status are published only
\* after the batch of both insights was persisted; when the batch insert
\* raises or reports row errors, the delivery ends with a FAILED status and
\* neither of the two is published.
C12_CompletedOnlyIfBatchPersisted ==
    SummarizerDelivery =>
        /\ \A c \in Events :
              (IsCompletionTrigger(c) \/ IsStatus(c, "COMPLETED")) =>
                  \E i \in 1..(c - 1) :
                      IsInsightInsert(i) /\ log[i].result = "ok" /\ BothInsights(i)
        /\ (\E i \in Events : IsInsightInsert(i) /\ log[i].result # "ok") =>
              /\ \A c \in Events :
                    ~IsCompletionTrigger(c) /\ ~IsStatus(c, "COMPLETED")
              /\ Done => IsStatus(Len(log), "FAILED")

ExceptionTexts == {"AttributeError", "ValueError", "PublishError", "InsertError"}

\* C13: an exception raised while the summarizer works on a trigger that
\* has ticker and date gives exactly one FAILED status carrying the
\* exception text.
C13_ExceptionGivesOneFailed ==
    (/\ SummarizerDelivery /\ Done
     /\ Truthy(Get(message_data, "ticker"))
     /\ Truthy(Get(message_data, "date"))
     /\ exc # Null)
    => /\ Cardinality(StatusCalls("FAILED")) = 1
       /\ \A i \in StatusCalls("FAILED") :
             \E k \in DOMAIN log[i].data.message :
                 log[i].data.message[k] \in ExceptionTexts

----------------------------------------------------------------------------
(* C14 .. C19: the Report Generator *)

ReportDelivery ==
    agent = "ReportGeneratorAgent" /\ Dispatched /\ IsDict(message_data)

IsMetadataInsert(i) ==
    IsInsert(i) /\ log[i].table = BIGQUERY_TABLE_REPORT_METADATA

\* the metadata inserts of the delivery that carry the given status
MetadataInserts(status) ==
    {i \in Events : IsMetadataInsert(i) /\ log[i].rows[1].status = status}

IsQuery(i) == log[i].op = "query_data"

IsModelCall(i) == log[i].op = "generate_text"

IsArtifactWrite(i) == log[i].op = "upload_from_string"

\* C14: a report request without report_type and without an identifying
\* field gets a FAILED status before anything is persisted: no metadata
\* row is inserted, not even IN_PROGRESS, and there is no query, no model
\* call and no artifact write.
C14_InvalidReportRequestNothingPersisted ==
    (/\ ReportDelivery
     /\ ~Truthy(Get(message_data, "report_type"))
     /\ ~Truthy(Get(message_data, "company_ticker")))
    => /\ \A i \in Events :
             ~IsInsert(i) /\ ~IsQuery(i) /\ ~IsModelCall(i) /\ ~IsArtifactWrite(i)
       /\ Done => \E i \in Events : IsStatus(i, "FAILED")

\* the report date of the request can be parsed
ReportDateValid ==
    ~Truthy(Get(message_data, "report_date"))
    \/ message_data.report_date \in ValidDates

\* C15: a report request with an unknown report_type makes the Report
\* Generator insert exactly one IN_PROGRESS metadata row and then exactly
\* one FAILED metadata row with the same report id, publish a FAILED
\* status, and make no model call and no artifact write.
C15_UnknownReportTypeInProgressThenFailed ==
    (/\ ReportDelivery /\ Done /\ ReportDateValid
     /\ Truthy(Get(message_data, "report_type"))
     /\ message_data.report_type \notin REPORT_TEMPLATES)
    => /\ Cardinality(MetadataInserts("IN_PROGRESS")) = 1
       /\ Cardinality(MetadataInserts("FAILED")) = 1
       /\ \A i \in MetadataInserts("IN_PROGRESS"), j \in MetadataInserts("FAILED") :
             /\ i < j
             /\ log[i].rows[1].report_id = log[j].rows[1].report_id
       /\ MetadataInserts("COMPLETED") = {}
       /\ \E i \in Events : IsStatus(i, "FAILED")
       /\ \A i \in Events : ~IsModelCall(i) /\ ~IsArtifactWrite(i)

\* the rows of a report id, in the order of their insertion
RowsOfReport(report_id) ==
    SelectSeq(report_metadata_table, LAMBDA r : r.report_id = report_id)

\* the delivery published its COMPLETED status and was answered 200
SuccessfulReportRun ==
    /\ ReportDelivery /\ Done /\ http = 200
    /\ \E i \in Events : IsStatus(i, "COMPLETED") /\ log[i].ok

\* C16: a successful run hands over, for one report id, exactly two
\* metadata rows, IN_PROGRESS then COMPLETED, writes exactly one artifact,
\* reports/<report_id>.txt, between them, and then publishes one
\* completion trigger and one COMPLETED status whose gcs_uri is the one of
\* the COMPLETED row; when the warehouse took both rows they are the rows
\* of that id, in this order.
C16_SuccessfulReportRun ==
    SuccessfulReportRun =>
        \E ip, up, co, tr, st \in Events :
            /\ ip < up /\ up < co /\ co < tr /\ tr < st /\ st = Len(log)
            /\ MetadataInserts("IN_PROGRESS") = {ip}
            /\ MetadataInserts("COMPLETED") = {co}
            /\ MetadataInserts("FAILED") = {}
            /\ log[co].rows[1].report_id = log[ip].rows[1].report_id
            /\ {i \in Events : IsArtifactWrite(i)} = {up}
            /\ log[up].result = "ok"
            /\ log[up].name = gcs_object_name(log[ip].rows[1].report_id)
            /\ log[up].name \in DOMAIN reports_bucket
            /\ {i \in Events : IsPublishTo(i, PUBSUB_TOPIC_REPORT_GENERATION_COMPLETED)}
                   = {tr}
            /\ log[tr].data.report_id = log[ip].rows[1].report_id
            /\ StatusCalls("COMPLETED") = {st}
            /\ log[st].data.gcs_uri = log[co].rows[1].gcs_uri
            /\ log[st].data.gcs_uri = gcs_uri_of(log[up].name)
            /\ log[st].data.report_id = log[ip].rows[1].report_id
            /\ (log[ip].result = "ok" /\ log[co].result = "ok") =>
                   RowsOfReport(log[ip].rows[1].report_id)
                       = <<log[ip].rows[1], log[co].rows[1]>>

\* a report for a ticker went through with both rows stored
C16_Witness ==
    /\ SuccessfulReportRun
    /\ message_data.report_type = "Executive Summary"
    /\ Len(log) = 9
    /\ Len(RowsOfReport(locals.report_id)) = 2
    /\ RowsOfReport(locals.report_id)[2].status = "COMPLETED"
    /\ RowsOfReport(locals.report_id)[2].gcs_uri = "gs://bucket/reports/uuid-1.txt"

\* a step after the IN_PROGRESS insert failed: an exception reached the
\* except block, or the IN_PROGRESS status publish, a query or the
\* COMPLETED insert did not succeed
ReportStepFailed ==
    \/ "error_msg" \in DOMAIN locals
    \/ \E i \in Events :
          \/ IsStatus(i, "IN_PROGRESS") /\ ~log[i].ok
          \/ IsQuery(i) /\ log[i].result = "failed"
          \/ i \in MetadataInserts("COMPLETED") /\ log[i].result # "ok"

\* C17: when a step after the IN_PROGRESS insert fails, the Report
\* Generator inserts a FAILED metadata row with the same report id and an
\* empty artifact location and publishes a FAILED status with the error
\* text.
C17_FailureAfterInProgressRecorded ==
    (/\ ReportDelivery /\ Done
     /\ Len(log) >= 1 /\ IsMetadataInsert(1) /\ log[1].result # "raised"
     /\ ReportStepFailed)
    => /\ \E j \in MetadataInserts("FAILED") :
             /\ log[j].rows[1].report_id = log[1].rows[1].report_id
             /\ log[j].rows[1].gcs_uri = ""
       /\ \E f \in StatusCalls("FAILED") :
             Len(log[f].data.message) = 4 /\ log[f].data.message[4] # Null

\* the statuses of the rows of a report id, in the order of insertion
RECURSIVE StatusesOf(_)
StatusesOf(rows) ==
    IF rows = <<>> THEN <<>>
    ELSE <<rows[1].status>> \o StatusesOf(Tail(rows))

ReportIdsStored == {report_metadata_table[i].report_id :
                        i \in DOMAIN report_metadata_table}

\* C18: the rows of a report id are IN_PROGRESS followed by at most one
\* terminal row: after a run no report id has both a COMPLETED and a
\* FAILED row, and no row follows a COMPLETED row.  (The IN_PROGRESS row
\* itself may be missing when the warehouse refused it.)
C18_ReportLifecycle ==
    (pc \in {"idle", "done"}) =>
        \A id \in ReportIdsStored :
            StatusesOf(RowsOfReport(id)) \in
                {<<"IN_PROGRESS">>,
                 <<"IN_PROGRESS", "COMPLETED">>,
                 <<"IN_PROGRESS", "FAILED">>,
                 <<"COMPLETED">>,
                 <<"FAILED">>}

\* the model call of a report for a ticker
ReportModelCalls == {g \in Events : IsModelCall(g) /\ ReportDelivery}

\* the query i of the delivery succeeded and found no row
FoundNothing(i, table) ==
    IsQuery(i) /\ log[i].table = table /\ log[i].result = "ok" /\ log[i].rows = <<>>

\* C19: when the ticker of a report request has no financial metric record
\* or no insight record, each absence becomes a "no data found" text block
\* and the run goes on to the template and the model call: the absence
\* itself never sends the run to the except block.
C19_AbsenceOfDataIsNoError ==
    ReportDelivery =>
        \A i \in Events :
            /\ FoundNothing(i, BIGQUERY_TABLE_FINANCIAL_METRICS) =>
                  /\ locals.financial_data_for_llm = "No recent financial data found"
                  /\ IF i = Len(log) THEN pc = "r_insights_query"
                     ELSE IsQuery(i + 1)
                  /\ \A g \in Events : IsModelCall(g) =>
                        log[g].financial_data = "No recent financial data found"
            /\ FoundNothing(i, BIGQUERY_TABLE_NUMERICAL_INSIGHTS) =>
                  /\ locals.numerical_insights_for_llm
                         = "No recent numerical insights found"
                  /\ IF get_report_template(locals.report_type) = Null
                     THEN /\ i = Len(log) => pc \in {"r_template", "r_except"}
                          /\ "error_msg" \in DOMAIN locals =>
                                locals.error_msg = "ValueError"
                     ELSE IF i = Len(log) THEN pc \in {"r_template", "r_generate"}
                          ELSE IsModelCall(i + 1)
                  /\ \A g \in Events : IsModelCall(g) =>
                        log[g].numerical_insights
                            = "No recent numerical insights found"

\* a report for a ticker without any stored data was generated
C19_Witness ==
    /\ SuccessfulReportRun
    /\ financial_metrics_table = <<>> /\ numerical_insights_table = <<>>
    /\ Truthy(Get(message_data, "company_ticker"))
    /\ IsQuery(3) /\ log[3].result = "ok"
    /\ IsQuery(4) /\ log[4].result = "ok"
    /\ IsModelCall(5)
    /\ log[5].financial_data = "No recent financial data found"
    /\ log[5].numerical_insights = "No recent numerical insights found"

----------------------------------------------------------------------------
(* C20: superseded rows of financial_metrics *)

\* row r is the most recent stored row of its ticker and date
MostRecent(r) ==
    \A i \in DOMAIN financial_metrics_table :
        (/\ financial_metrics_table[i].ticker = r.ticker
         /\ financial_metrics_table[i].date = r.date)
        => financial_metrics_table[i].ingestion_timestamp <= r.ingestion_timestamp

\* C20: what the Numerical Summarizer and the Report Generator read from
\* financial_metrics holds, for every ticker and date, only the row with
\* the latest ingestion timestamp; superseded rows are left out.
C20_ReadersUseMostRecentRow ==
    \A i \in Events :
        (IsQuery(i) /\ log[i].table = BIGQUERY_TABLE_FINANCIAL_METRICS) =>
            \A k \in DOMAIN log[i].rows : MostRecent(log[i].rows[k])

----------------------------------------------------------------------------
(* C22 *)

StatusFields == {"request_id", "status", "agent", "message"}

StatusValues == {"IN_PROGRESS", "ROUTED", "COMPLETED", "SKIPPED", "FAILED"}

\* C22: every status update an agent publishes carries the fields
\* request_id, status, agent and message, and its status is one of
\* IN_PROGRESS, ROUTED, COMPLETED, SKIPPED, FAILED.
C22_StatusUpdateShape ==
    \A i \in Events :
        IsPublishTo(i, PUBSUB_TOPIC_DASHBOARD_UPDATES)
        => /\ StatusFields \subseteq DOMAIN log[i].data
           /\ log[i].data.status \in StatusValues

----------------------------------------------------------------------------
(* C28 *)

\* C28: in the coordinator a forward and a FAILED status never both occur
\* for one delivery, whichever publishes succeed or fail: a request the
\* broker accepted on an agent topic is never reported as FAILED.
C28_ForwardExcludesFailed ==
    CoordinatorDelivery
    => ~(/\ \E i \in Events : IsForward(i) /\ log[i].ok
         /\ \E j \in Events : IsStatus(j, "FAILED"))

----------------------------------------------------------------------------
(* C24 *)

\* the insert of the IN_PROGRESS metadata row
IsStartedMarker(i) ==
    IsMetadataInsert(i) /\ log[i].rows[1].status = "IN_PROGRESS"

IsExternalCall(i) == IsQuery(i) \/ IsModelCall(i) \/ IsArtifactWrite(i)

\* C24: the Report Generator queries the warehouse, calls the model or
\* writes an artifact only after the IN_PROGRESS metadata row of the report
\* was inserted successfully, and when that insert does not succeed no
\* later step of the report runs.
C24_StartedMarkerBeforeExternalCalls ==
    ReportDelivery
    => /\ \A i \in Events :
            IsExternalCall(i)
            => \E j \in 1..(i - 1) :
                  /\ IsStartedMarker(j)
                  /\ log[j].result = "ok"
                  /\ log[j].rows[1].report_id = locals.report_id
       /\ \A j \in Events :
            (IsStartedMarker(j) /\ log[j].result # "ok") => Len(log) = j

----------------------------------------------------------------------------
(* C25 *)

\* C25: the summarizer publishes SKIPPED only for a valid trigger whose
\* metrics query succeeded and returned no rows; when the metrics query
\* fails, the delivery is reported FAILED and never SKIPPED.
C25_SkippedOnlyForEmptyResult ==
    SummarizerDelivery
    => /\ \A s \in Events :
            IsStatus(s, "SKIPPED")
            => /\ ValidTrigger
               /\ \E q \in 1..(s - 1) :
                     /\ IsQuery(q)
                     /\ log[q].result = "ok"
                     /\ log[q].rows = <<>>
       /\ (\E q \in Events : IsQuery(q) /\ log[q].result = "failed")
          => /\ StatusCalls("SKIPPED") = {}
             /\ Done => StatusCalls("FAILED") # {}

----------------------------------------------------------------------------
(* C26 *)

\* the summaries that stand in for a missing model answer
FallbackSummaries ==
    {"Failed to generate summary via Gemini.", "Error generating summary"}

\* the model did not answer call g with a text
ModelFailedAt(g) == IsModelCall(g) /\ log[g].result # "text"

\* the number of the insight that model call g is for
InsightOf(g) == Cardinality({h \in 1..g : IsModelCall(h)})

\* every call other than those of the model did what it was asked to
OnlyTheModelFailed ==
    \A i \in Events :
        /\ IsPublish(i) => log[i].ok
        /\ IsInsert(i) => log[i].result = "ok"
        /\ IsQuery(i) => log[i].result = "ok"

\* C26: when the model raises or answers with nothing for one of the two
\* insights, the summarizer puts a fallback summary in that insight, and
\* with nothing else failing it still persists both insight records and
\* publishes COMPLETED and no FAILED status.
C26_ModelFailureDegradesToFallback ==
    (SummarizerDelivery /\ \E g \in Events : ModelFailedAt(g))
    => /\ \A g \in Events :
            ModelFailedAt(g)
            => /\ Len(locals.numerical_insights_to_insert) >= InsightOf(g)
               /\ locals.numerical_insights_to_insert[InsightOf(g)].summary_text
                     \in FallbackSummaries
       /\ OnlyTheModelFailed
          => /\ StatusCalls("FAILED") = {}
             /\ pc \notin {"s_except", "raise"}
             /\ Done
                => /\ \E i \in Events :
                        /\ IsInsightInsert(i)
                        /\ BothInsights(i)
                        /\ \A n \in 1..2 :
                              log[i].rows[n] \in
                                 {numerical_insights_table[k] :
                                    k \in 1..Len(numerical_insights_table)}
                   /\ Cardinality(StatusCalls("COMPLETED")) = 1

\* the model failed for both insights and the delivery completed
C26_Witness ==
    /\ SummarizerDelivery /\ Done /\ OnlyTheModelFailed
    /\ \E g, h \in Events :
          /\ g < h
          /\ IsModelCall(g) /\ log[g].result = "raised"
          /\ IsModelCall(h) /\ log[h].result = "empty"
    /\ StatusCalls("COMPLETED") # {}
    /\ \E i \in Events : IsInsightInsert(i) /\ BothInsights(i)
          /\ log[i].rows[1].summary_text = "Error generating summary"
          /\ log[i].rows[2].summary_text = "Failed to generate summary via Gemini."

----------------------------------------------------------------------------
(* C27 *)

\* a trigger without a ticker or without a date
IncompleteTrigger ==
    /\ SummarizerDelivery
    /\ \/ ~Truthy(Get(message_data, "ticker"))
       \/ ~Truthy(Get(message_data, "date"))

\* C27: a trigger that lacks ticker or date is dropped silently: the
\* handler returns at once, with no status update, no query, no model
\* call, no insert and no outbound message.
C27_IncompleteTriggerDropped ==
    IncompleteTrigger
    => /\ log = <<>>
       /\ pc \in {"process_message", "return", "done"}
       /\ Done => http = 200

\* a trigger that names a ticker and no date was dropped
C27_Witness ==
    /\ IncompleteTrigger /\ Done
    /\ Truthy(Get(message_data, "ticker"))
    /\ log = <<>>
    /\ http = 200

----------------------------------------------------------------------------
(* C29 *)

\* C29: the ticker of the data-available trigger is the ticker under which
\* the record was persisted, whatever ticker the request carried, so the
\* summarizer's query by the trigger's ticker and date finds that record.
C29_TriggerTickerIsPersistedTicker ==
    MetricsDelivery
    => \A t \in Events :
          IsTrigger(t)
          => /\ \E i \in 1..(t - 1) :
                   /\ IsInsert(i) /\ log[i].result = "ok"
                   /\ log[i].rows[1].ticker = log[t].data.ticker
             /\ get_financial_metrics(financial_metrics_table,
                                      log[t].data.ticker,
                                      DayOf(log[t].data.date) - 30,
                                      DayOf(log[t].data.date)) # <<>>

----------------------------------------------------------------------------
(* C30 *)

\* the query for the latest metric record of the report's ticker gave a
\* record the Metrics Fetcher can persist: one with a current price
LatestRecordPersistable(q) ==
    /\ IsQuery(q)
    /\ log[q].table = BIGQUERY_TABLE_FINANCIAL_METRICS
    /\ log[q].rows # <<>>
    /\ log[q].rows[1].current_price # Null

\* C30: every metric record the Metrics Fetcher can persist, whichever of
\* its other fields are null, is rendered by the Report Generator: the
\* rendering raises nothing and the report does not end FAILED over it.
C30_PersistableRecordRenders ==
    (ReportDelivery /\ \E q \in Events : LatestRecordPersistable(q))
    => /\ locals.financial_data_for_llm = "Latest Financial Metrics"
       /\ exc # "TypeError"
       /\ \A f \in Events :
             IsStatus(f, "FAILED") => locals.error_msg # "TypeError"

----------------------------------------------------------------------------
(* C23 *)

\* the payload handed to publish_message
PublishedPayload == log[1].data

\* the published payload has been decoded for process_message
PayloadDecoded == pc = "process_message" /\ log # <<>>

\* a payload that is a JSON value: dicts with string keys, lists, strings,
\* numbers other than NaN, booleans and None
RECURSIVE IsJsonValue(_)
IsJsonValue(x) ==
    CASE x.t \in {"NoneType", "bool", "int", "str"} -> TRUE
      [] x.t = "float" -> x.v # "nan"
      [] x.t = "list" -> \A i \in 1..Len(x.items) : IsJsonValue(x.items[i])
      [] x.t = "dict" ->
            /\ \A i \in 1..Len(x.keys) : x.keys[i].t = "str"
            /\ \A i \in 1..Len(x.items) : IsJsonValue(x.items[i])
      [] OTHER -> FALSE

\* the value of a number; halves are kept by counting in tenths
NumberValue(x) ==
    CASE x.v \in {"False", "0", "0.0"} -> 0
      [] x.v \in {"True", "1", "1.0"} -> 10
      [] x.v = "1.5" -> 15
      [] x.v \in {"2", "2.0"} -> 20
      [] x.v = "inf" -> 1000

\* Python's ==: numbers compare by value whatever their type, NaN equals
\* nothing, a list never equals a tuple, dicts compare key by key
RECURSIVE py_eq(_, _)
py_eq(x, y) ==
    IF x.t \in {"bool", "int", "float"} /\ y.t \in {"bool", "int", "float"}
    THEN /\ x.v # "nan"
         /\ y.v # "nan"
         /\ NumberValue(x) = NumberValue(y)
    ELSE IF x.t # y.t THEN FALSE
    ELSE CASE x.t \in {"NoneType", "str", "bytes"} -> x.v = y.v
           [] x.t \in {"list", "tuple"} ->
                 /\ Len(x.items) = Len(y.items)
                 /\ \A i \in 1..Len(x.items) : py_eq(x.items[i], y.items[i])
           [] x.t = "dict" ->
                 /\ Len(x.keys) = Len(y.keys)
                 /\ \A i \in 1..Len(x.keys) :
                       \E j \in 1..Len(y.keys) :
                           /\ py_eq(x.keys[i], y.keys[j])
                           /\ py_eq(x.items[i], y.items[j])

\* C23 as stated: for every payload x that json.dumps accepts, decoding the
\* push envelope of the bytes publish_message produced for x gives a
\* payload equal to x.
C23_RoundTripOfSerializablePayloads ==
    PayloadDecoded => py_eq(message_data, PublishedPayload)

\* C23, amended: for every payload x that is a JSON value (dicts with
\* string keys, lists, strings, numbers other than NaN, booleans, None),
\* decoding the push envelope of the bytes publish_message produced for x
\* gives a payload equal to x.
C23_RoundTripOfJsonValues ==
    (PayloadDecoded /\ IsJsonValue(PublishedPayload))
    => py_eq(message_data, PublishedPayload)

\* a dict with a string and a nested list went through the round trip
C23_Witness ==
    /\ PayloadDecoded
    /\ PublishedPayload = PyDict(<<PyStr("a"), PyStr("1")>>,
                                 <<PyStr("a"), PyList(<<PyNone>>)>>)
    /\ message_data = PublishedPayload

----------------------------------------------------------------------------
(* C21 *)

\* the statuses that end a request
FinalStatusKinds == {"COMPLETED", "SKIPPED", "FAILED"}

IsFinalStatusEvent(e) ==
    /\ e.op = "publish"
    /\ e.topic = PUBSUB_TOPIC_DASHBOARD_UPDATES
    /\ e.data.status \in FinalStatusKinds

\* the final statuses a delivery published, in order
FinalStatuses(calls) ==
    LET final == SelectSeq(calls, IsFinalStatusEvent)
    IN  [i \in 1..Len(final) |-> final[i].data.status]

\* what the service answered to a call
AnswerOf(e) ==
    CASE e.op = "publish" -> <<e.ok>>
      [] e.op = "insert_rows" -> <<e.result>>
      [] e.op = "query_data" -> <<e.result, e.rows>>
      [] e.op = "get_key_metrics" ->
            IF "raised" \in DOMAIN e.result THEN <<"raised">>
            ELSE IF "none" \in DOMAIN e.result THEN <<"none">>
            ELSE <<e.result.current_price, e.result.day_change_percent,
                   e.result.market_cap>>
      [] e.op = "generate_text" -> <<e.result>>
      [] e.op = "upload_from_string" -> <<e.result>>

\* the message has been delivered a second time
Redelivered == replay # EmptyDict

\* wherever the two deliveries made the same call, the service gave the
\* same answer
SameAnswers ==
    \A i \in 1..Len(log) :
        (i <= Len(replay.log) /\ replay.log[i].op = log[i].op)
        => AnswerOf(replay.log[i]) = AnswerOf(log[i])

\* C21: when a message is delivered twice and the external services answer
\* the second delivery as they answered the first, the second delivery
\* publishes the same final statuses as the first: the same kind
\* (COMPLETED, SKIPPED or FAILED) and the same number.
C21_DuplicateDeliverySameFinalStatus ==
    (Redelivered /\ Done /\ SameAnswers)
    => FinalStatuses(log) = FinalStatuses(replay.log)

\* a report request was delivered twice and completed twice
C21_Witness ==
    /\ Redelivered /\ Done /\ SameAnswers
    /\ agent = "ReportGeneratorAgent"
    /\ Len(log) = Len(replay.log)
    /\ FinalStatuses(replay.log) = <<"COMPLETED">>
    /\ FinalStatuses(log) = <<"COMPLETED">>
    /\ Len(report_metadata_table) = 4

====
